---- MODULE Spec2Model ----
(***************************************************************************)
(* A model of the rust-web-server: the worker pool and connection job of   *)
(* main.rs, the request parser and response serializer of http.rs, the     *)
(* handlers and router of handlers.rs and the file store of common.rs.     *)
(*                                                                         *)
(* Text is modelled as a sequence of one-character strings, so that the    *)
(* parsing, trimming and splitting the code performs is computed and not   *)
(* assumed.  A filesystem is a function from absolute paths (sequences of  *)
(* names) to nodes (directories, files, symbolic links).                   *)
(***************************************************************************)
EXTENDS Integers, Sequences, FiniteSets, TLC

(***************************************************************************)
(* Options and results.                                                    *)
(***************************************************************************)
None == [some |-> FALSE]
Some(v) == [some |-> TRUE, v |-> v]
Ok(v) == [ok |-> TRUE, v |-> v]
Err(k) == [ok |-> FALSE, kind |-> k]

(***************************************************************************)
(* Text: the std string operations the code calls.                         *)
(***************************************************************************)
LowerLetters ==
  <<"a","b","c","d","e","f","g","h","i","j","k","l","m",
    "n","o","p","q","r","s","t","u","v","w","x","y","z">>
UpperLetters ==
  <<"A","B","C","D","E","F","G","H","I","J","K","L","M",
    "N","O","P","Q","R","S","T","U","V","W","X","Y","Z">>
Digits == <<"0","1","2","3","4","5","6","7","8","9">>

\* char::to_uppercase on an ASCII character
ToUpperChar(c) ==
  IF \E i \in 1..26 : LowerLetters[i] = c
  THEN UpperLetters[CHOOSE i \in 1..26 : LowerLetters[i] = c]
  ELSE c

\* str::to_uppercase
ToUpper(s) == [i \in 1..Len(s) |-> ToUpperChar(s[i])]

\* U+000B, the vertical tab
VerticalTab == ""

\* char::is_whitespace, on the ASCII range: U+0009..U+000D and the space
IsWhitespace(c) == c \in {" ", "\t", "\n", VerticalTab, "\f", "\r"}

\* a byte no UTF-8 text holds
ByteFF == "0xFF"

\* U+FFFD, the replacement character
ReplacementChar == "U+FFFD"

\* str::from_utf8 accepts the bytes
IsUtf8(bytes) == \A i \in 1..Len(bytes) : bytes[i] # ByteFF

\* OsStr::to_string_lossy: every byte that is not UTF-8 becomes U+FFFD
to_string_lossy(bytes) ==
  [i \in 1..Len(bytes) |-> IF bytes[i] = ByteFF THEN ReplacementChar ELSE bytes[i]]

\* Vec::len of the bytes of a text: U+FFFD is the three bytes EF BF BD, every
\* other element one byte
Vec_len(content) ==
  Len(content) + 2 * Cardinality({i \in 1..Len(content) : content[i] = ReplacementChar})

RECURSIVE Cat(_)
\* concatenation of a sequence of texts
Cat(ss) == IF ss = <<>> THEN <<>> ELSE Head(ss) \o Cat(Tail(ss))

\* str::starts_with
StartsWith(s, p) == Len(p) <= Len(s) /\ SubSeq(s, 1, Len(p)) = p

\* str::ends_with
EndsWith(s, p) == Len(p) <= Len(s) /\ SubSeq(s, Len(s) - Len(p) + 1, Len(s)) = p

\* the text after the first n characters
Drop(s, n) == SubSeq(s, n + 1, Len(s))

\* the least and the greatest of a set of positions, 0 when it is empty
MinOf(S) == IF S = {} THEN 0 ELSE CHOOSE i \in S : \A j \in S : i <= j
MaxOf(S) == IF S = {} THEN 0 ELSE CHOOSE i \in S : \A j \in S : i >= j

\* str::find: the first position where p occurs in s, 0 when it does not
Find(s, p) ==
  MinOf({i \in 1..(Len(s) - Len(p) + 1) : SubSeq(s, i, i + Len(p) - 1) = p})

\* str::rfind: the last position where p occurs in s, 0 when it does not
RFind(s, p) ==
  MaxOf({i \in 1..(Len(s) - Len(p) + 1) : SubSeq(s, i, i + Len(p) - 1) = p})

\* str::contains
Contains(s, p) == Find(s, p) # 0

\* the texts before and after the n characters at position i, none when i is 0
SplitAt(s, i, n) ==
  IF i = 0 THEN None ELSE Some(<<SubSeq(s, 1, i - 1), Drop(s, i + n - 1)>>)

\* str::split_once: the texts before and after the first occurrence of p
SplitOnce(s, p) == SplitAt(s, Find(s, p), Len(p))

\* str::rsplit_once: the texts before and after the last occurrence of p
RSplitOnce(s, p) == SplitAt(s, RFind(s, p), Len(p))

RECURSIVE TrimStart(_)
\* str::trim_start
TrimStart(s) ==
  IF s # <<>> /\ IsWhitespace(Head(s)) THEN TrimStart(Tail(s)) ELSE s

RECURSIVE TrimEnd(_)
\* str::trim_end
TrimEnd(s) ==
  IF s # <<>> /\ IsWhitespace(s[Len(s)]) THEN TrimEnd(SubSeq(s, 1, Len(s) - 1)) ELSE s

\* str::trim
Trim(s) == TrimEnd(TrimStart(s))

RECURSIVE TrimStartMatches(_, _)
\* str::trim_start_matches: every repetition of the prefix p is removed
TrimStartMatches(s, p) ==
  IF p # <<>> /\ StartsWith(s, p) THEN TrimStartMatches(Drop(s, Len(p)), p) ELSE s

RECURSIVE TrimEndMatches(_, _)
TrimEndMatches(s, p) ==
  IF p # <<>> /\ EndsWith(s, p)
  THEN TrimEndMatches(SubSeq(s, 1, Len(s) - Len(p)), p) ELSE s

\* str::trim_matches for a one-character pattern
TrimMatches(s, c) == TrimEndMatches(TrimStartMatches(s, <<c>>), <<c>>)

\* str::strip_prefix
StripPrefix(s, p) == IF StartsWith(s, p) THEN Some(Drop(s, Len(p))) ELSE None

\* str::strip_suffix
StripSuffix(s, p) ==
  IF EndsWith(s, p) THEN Some(SubSeq(s, 1, Len(s) - Len(p))) ELSE None

RECURSIVE Split(_, _)
RECURSIVE SplitFrom(_, _, _)
\* str::split on a one-character separator: every piece, empty ones included
Split(s, c) == SplitFrom(s, Find(s, <<c>>), c)

\* the pieces of s, its first separator at position i
SplitFrom(s, i, c) ==
  IF i = 0 THEN <<s>>
  ELSE <<SubSeq(s, 1, i - 1)>> \o Split(Drop(s, i), c)

RECURSIVE SplitN(_, _, _)
RECURSIVE SplitNFrom(_, _, _, _)
\* str::splitn(n, c): at most n pieces, the last one holding the rest
SplitN(s, n, c) == SplitNFrom(s, Find(s, <<c>>), n, c)

\* at most n pieces of s, its first separator at position i
SplitNFrom(s, i, n, c) ==
  IF n <= 1 \/ i = 0 THEN <<s>>
  ELSE <<SubSeq(s, 1, i - 1)>> \o SplitN(Drop(s, i), n - 1, c)

RECURSIVE SplitWhitespace(_)
RECURSIVE SplitWhitespaceAt(_, _)
\* the runs of a text that starts with no white space
SplitWhitespaceFrom(t) ==
  SplitWhitespaceAt(t, MinOf({i \in 1..Len(t) : IsWhitespace(t[i])}))

\* str::split_whitespace: the maximal runs of non-whitespace characters
SplitWhitespace(s) == SplitWhitespaceFrom(TrimStart(s))

\* the runs of t, its first white space at position e
SplitWhitespaceAt(t, e) ==
  IF t = <<>> THEN <<>>
  ELSE IF e = 0 THEN <<t>>
  ELSE <<SubSeq(t, 1, e - 1)>> \o SplitWhitespace(Drop(t, e - 1))

RECURSIVE Join(_, _)
\* [String]::join
Join(ss, sep) ==
  IF ss = <<>> THEN <<>>
  ELSE IF Len(ss) = 1 THEN ss[1]
  ELSE ss[1] \o sep \o Join(Tail(ss), sep)

\* the digit a character writes
DigitOf(c) == CHOOSE d \in 0..9 : Digits[d + 1] = c

\* the greatest integer the checker holds: a usize above it is kept as this
\* one (the code compares a parsed length with MAX_FILE_SIZE and zero only)
UsizeHeld == 2^30 + (2^30 - 1)

RECURSIVE ParseDigits(_, _)
ParseDigits(s, acc) ==
  IF s = <<>> THEN acc
  ELSE IF acc > (UsizeHeld - DigitOf(Head(s))) \div 10 THEN UsizeHeld
  ELSE ParseDigits(Tail(s), 10 * acc + DigitOf(Head(s)))

RECURSIVE StripZeros(_)
\* a text of digits without its leading zeros
StripZeros(t) ==
  IF t # <<>> /\ Head(t) = "0" THEN StripZeros(Tail(t)) ELSE t

\* usize::MAX on a 64-bit target, 2^64 - 1, in decimal
T_usize_MAX == <<"1","8","4","4","6","7","4","4","0","7","3","7","0","9","5","5","1","6","1","5">>

\* of two texts of digits of one length, a writes the greater number
DigitsGreater(a, b) ==
  \E i \in 1..Len(a) :
    /\ \A j \in 1..(i - 1) : a[j] = b[j]
    /\ DigitOf(a[i]) > DigitOf(b[i])

\* the number a text of digits without leading zeros writes fits a usize
FitsUsize(z) ==
  \/ Len(z) < Len(T_usize_MAX)
  \/ Len(z) = Len(T_usize_MAX) /\ ~DigitsGreater(z, T_usize_MAX)

\* the number a text of digits writes; none for any other text, and none
\* when the number overflows a usize
ParseAllDigits(t) ==
  IF t # <<>> /\ \A i \in 1..Len(t) : \E d \in 1..10 : Digits[d] = t[i]
  THEN IF FitsUsize(StripZeros(t)) THEN Some(ParseDigits(t, 0)) ELSE None
  ELSE None

\* str::parse::<usize>: an optional '+' and at least one digit, nothing else;
\* an error too when the number is above usize::MAX
ParseUsize(s) ==
  ParseAllDigits(IF s # <<>> /\ Head(s) = "+" THEN Tail(s) ELSE s)

RECURSIVE NatToText(_)
\* usize::to_string
NatToText(n) ==
  IF n < 10 THEN <<Digits[n + 1]>>
  ELSE NatToText(n \div 10) \o <<Digits[(n % 10) + 1]>>

(***************************************************************************)
(* Texts the code and the inputs use.                                      *)
(***************************************************************************)
T_slash == <<"/">>
T_dot == <<".">>
T_dotdot == <<".",".">>
T_CRLF == <<"\r","\n">>
T_LF == <<"\n">>
T_uploads == <<"u","p","l","o","a","d","s">>
T_uploads_slash == <<"u","p","l","o","a","d","s","/">>
T_srv == <<"s","r","v">>
T_etc == <<"e","t","c">>
T_passwd == <<"p","a","s","s","w","d">>
T_motd_txt == <<"m","o","t","d",".","t","x","t">>
T_a_txt == <<"a",".","t","x","t">>
T_sub == <<"s","u","b">>
T_b_png == <<"b",".","p","n","g">>
T_in_txt == <<"i","n",".","t","x","t">>
T_out_txt == <<"o","u","t",".","t","x","t">>
T_ext == <<"e","x","t">>
T_note_txt == <<"n","o","t","e",".","t","x","t">>
T_x_txt == <<"x",".","t","x","t">>
T_hi == <<"h","i">>
T_proc == <<"p","r","o","c">>
T_self == <<"s","e","l","f">>
T_mem == <<"m","e","m">>
T_l_txt == <<"l",".","t","x","t">>
T_txt == <<"t","x","t">>
T_templates == <<"t","e","m","p","l","a","t","e","s">>
T_index_html == <<"i","n","d","e","x",".","h","t","m","l">>
T_upload_html == <<"u","p","l","o","a","d",".","h","t","m","l">>
T_page_not_found_html == <<"p","a","g","e","-","n","o","t","-","f","o","u","n","d",".","h","t","m","l">>
T_file_not_found_html == <<"f","i","l","e","-","n","o","t","-","f","o","u","n","d",".","h","t","m","l">>
T_access_denied_html == <<"a","c","c","e","s","s","-","d","e","n","i","e","d",".","h","t","m","l">>
T_server_error_html == <<"s","e","r","v","e","r","-","e","r","r","o","r",".","h","t","m","l">>
T_response_html == <<"r","e","s","p","o","n","s","e",".","h","t","m","l">>

(***************************************************************************)
(* std::path: the lexical path operations.                                 *)
(***************************************************************************)
\* Path::is_absolute
IsAbsolute(s) == StartsWith(s, T_slash)

\* the components of a path, from its '/' separated pieces
ComponentsOf(s, segs) ==
  (IF IsAbsolute(s) THEN <<T_slash>>
   ELSE IF segs[1] = T_dot THEN <<T_dot>>
   ELSE <<>>)
    \o SelectSeq(segs, LAMBDA x : x # <<>> /\ x # T_dot)

\* Path::components: the root, a leading '.', and the non-empty pieces other
\* than '.'
Components(s) == ComponentsOf(s, Split(s, "/"))

\* whether a component is Component::Normal
IsNormal(c) == c \notin {T_slash, T_dot, T_dotdot}

\* the last component when it is a normal one
LastNormal(cs) ==
  IF cs # <<>> /\ IsNormal(cs[Len(cs)]) THEN Some(cs[Len(cs)]) ELSE None

\* Path::file_name
FileName(s) == LastNormal(Components(s))

\* the text after the '.' at position i of a file name, none when the name has
\* no '.' or only a leading one
ExtensionAt(name, i) == IF i <= 1 THEN None ELSE Some(Drop(name, i))
ExtensionOf(n) == IF ~n.some THEN None ELSE ExtensionAt(n.v, RFind(n.v, T_dot))

\* Path::extension: the text after the last '.' of the file name
Extension(s) == ExtensionOf(FileName(s))

\* Path::join: an absolute second path replaces the first
PathJoin(base, p) ==
  IF IsAbsolute(p) THEN p
  ELSE IF base # <<>> /\ ~EndsWith(base, T_slash) THEN base \o T_slash \o p
  ELSE base \o p

\* whether the sequence p is a prefix of the sequence s
IsPrefix(p, s) == Len(p) <= Len(s) /\ SubSeq(s, 1, Len(p)) = p

\* Path::starts_with: a prefix of whole components
PathStartsWith(s, base) == IsPrefix(Components(base), Components(s))

(***************************************************************************)
(* The filesystem the server runs on: a function from absolute paths       *)
(* (sequences of names, <<>> the root) to directories, files and symbolic  *)
(* links, and the path resolution the operating system performs.           *)
(***************************************************************************)
Dir == [kind |-> "dir"]
RegularFile(c) == [kind |-> "file", content |-> c]
Symlink(t) == [kind |-> "link", target |-> t]

\* a file that opens and whose reads and writes fail, as /proc/self/mem does
Unreadable == [kind |-> "special"]

\* the working directory of the server process
Cwd == <<T_srv>>

\* the uploads directory, "uploads" relative to the working directory
UploadsRoot == Cwd \o <<T_uploads>>

\* the symbolic links followed in one resolution before ELOOP
MaxSymlinks == 3

\* the path of a node as text
PathText(p) == IF p = <<>> THEN T_slash ELSE Cat([i \in 1..Len(p) |-> T_slash \o p[i]])

\* the names the operating system walks for a path text; a trailing '/'
\* requires a directory, as a final "." does
OsSegments(s) ==
  SelectSeq(Split(s, "/"), LAMBDA x : x # <<>>)
    \o (IF EndsWith(s, T_slash) THEN <<T_dot>> ELSE <<>>)

RECURSIVE Walk(_, _, _, _)
\* path resolution from the resolved node cur along segs, following symbolic
\* links (fuel of them): the node reached, or the errno
Walk(f, cur, segs, fuel) ==
  IF segs = <<>> THEN Ok(cur)
  ELSE IF f[cur].kind # "dir" THEN Err("ENOTDIR")
  ELSE IF Head(segs) = T_dot THEN Walk(f, cur, Tail(segs), fuel)
  ELSE IF Head(segs) = T_dotdot
    THEN Walk(f, IF cur = <<>> THEN <<>> ELSE SubSeq(cur, 1, Len(cur) - 1),
              Tail(segs), fuel)
  ELSE LET p == Append(cur, Head(segs))
       IN  IF p \notin DOMAIN f THEN Err("ENOENT")
           ELSE IF f[p].kind = "link"
             THEN IF fuel = 0 THEN Err("ELOOP")
                  ELSE Walk(f, <<>>, f[p].target \o Tail(segs), fuel - 1)
           ELSE Walk(f, p, Tail(segs), fuel)

\* the node a path text names, symbolic links followed
Resolve(f, s) ==
  IF s = <<>> THEN Err("ENOENT")
  ELSE Walk(f, IF IsAbsolute(s) THEN <<>> ELSE Cwd, OsSegments(s), MaxSymlinks)

\* the absolute, link-free text of a resolved node
CanonicalOf(r) == IF r.ok THEN Ok(PathText(r.v)) ELSE r

\* Path::canonicalize (realpath): the absolute, link-free text of an existing path
Canonicalize(f, s) == CanonicalOf(Resolve(f, s))

\* Path::exists
Exists(f, s) == Resolve(f, s).ok

\* Path::is_dir
IsDirNode(f, r) == r.ok /\ f[r.v].kind = "dir"
IsDir(f, s) == IsDirNode(f, Resolve(f, s))

\* a sequence without its last element, and its last element
PathBufParent(cs) == SubSeq(cs, 1, Len(cs) - 1)
PathBufLast(cs) == cs[Len(cs)]

RECURSIVE CreateAt(_, _, _, _)
RECURSIVE CreateThrough(_, _, _, _)
\* where open(O_CREAT | O_TRUNC) of the name in the resolved directory dir
\* lands: a new or existing regular file, a symbolic link being followed
CreateAt(f, dir, name, fuel) ==
  IF name \in {T_dot, T_dotdot} THEN Err("EISDIR")
  ELSE IF Append(dir, name) \notin DOMAIN f THEN Ok(Append(dir, name))
  ELSE IF f[Append(dir, name)].kind \in {"file", "special"} THEN Ok(Append(dir, name))
  ELSE IF f[Append(dir, name)].kind = "dir" THEN Err("EISDIR")
  ELSE IF fuel = 0 THEN Err("ELOOP")
  ELSE IF f[Append(dir, name)].target = <<>> THEN Err("EISDIR")
  ELSE CreateThrough(f, Walk(f, <<>>, PathBufParent(f[Append(dir, name)].target), fuel - 1),
                     PathBufLast(f[Append(dir, name)].target), fuel - 1)

\* the same in the directory the resolution d has reached
CreateThrough(f, d, name, fuel) ==
  IF ~d.ok THEN d
  ELSE IF f[d.v].kind # "dir" THEN Err("ENOTDIR")
  ELSE CreateAt(f, d.v, name, fuel)

\* the last name of a path opened with O_CREAT, in the directory the walk of
\* the names before it has reached: a '/' after the name is refused once the
\* directory is found
CreateLast(f, s, d, name) ==
  IF ~d.ok THEN d
  ELSE IF f[d.v].kind # "dir" THEN Err("ENOTDIR")
  ELSE IF EndsWith(s, T_slash) THEN Err("EISDIR")
  ELSE CreateAt(f, d.v, name, MaxSymlinks)

\* File::create, from the names of the path
CreateIn(f, s, segs) ==
  IF s = <<>> THEN Err("ENOENT")
  ELSE IF segs = <<>> THEN Err("EISDIR")
  ELSE CreateLast(f, s, Walk(f, IF IsAbsolute(s) THEN <<>> ELSE Cwd,
                             PathBufParent(segs), MaxSymlinks),
                  PathBufLast(segs))

\* File::create: the location of the file that is created or truncated
CreateLocation(f, s) == CreateIn(f, s, SelectSeq(Split(s, "/"), LAMBDA x : x # <<>>))

\* File::create followed by write_all: the filesystem with the file written
WriteFile(f, loc, content) == (loc :> RegularFile(content)) @@ f

\* File::open for reading: the node opened
File_open(f, s) == Resolve(f, s)

\* Read::read_to_end on the node opened: the content of a regular file
ReadNode(f, r) ==
  IF ~r.ok THEN r
  ELSE IF f[r.v].kind = "dir" THEN Err("EISDIR")
  ELSE IF f[r.v].kind = "special" THEN Err("EIO")
  ELSE Ok(f[r.v].content)

\* File::open and read_to_end: the content of the regular file a text names
ReadFile(f, s) == ReadNode(f, File_open(f, s))

\* the names in a directory node
Children(f, d) == {p \in DOMAIN f : Len(p) = Len(d) + 1 /\ IsPrefix(d, p)}

(***************************************************************************)
(* http.rs: status codes, header names and responses.                      *)
(***************************************************************************)
\* HttpStatus::get_status_code
get_status_code(status) ==
  CASE status = "Ok" -> 200
    [] status = "SeeOther" -> 303
    [] status = "Forbidden" -> 403
    [] status = "NotFound" -> 404
    [] status = "ServerError" -> 500

HttpHeader_CONTENT_LENGTH == <<"C","o","n","t","e","n","t","-","L","e","n","g","t","h">>
HttpHeader_CONTENT_TYPE == <<"C","o","n","t","e","n","t","-","T","y","p","e">>
HttpHeader_CONTENT_DISPOSITION ==
  <<"C","o","n","t","e","n","t","-","D","i","s","p","o","s","i","t","i","o","n">>
HttpHeader_LOCATION == <<"L","o","c","a","t","i","o","n">>

\* a HashMap<String, String> with no entry
EmptyMap == [k \in {} |-> <<>>]

\* HashMap::insert: an existing entry of the key is replaced
MapInsert(m, k, v) == (k :> v) @@ m

\* ResponseBody
BodyFile(path) == [kind |-> "File", v |-> path]
BodyText(text) == [kind |-> "Text", v |-> text]
BodyEmpty == [kind |-> "Empty", v |-> <<>>]

\* Response::new, reached through ResponseBuilder::build
Response(status, headers, body) ==
  [http_version |-> <<"H","T","T","P","/","1",".","1">>,
   status |-> status, headers |-> headers, body |-> body]

(***************************************************************************)
(* handlers.rs: the templates, compiled into the binary.  Their text is    *)
(* not part of the sources at hand; each is a short text, the index with   *)
(* its one {{FILES_LIST}} token.                                           *)
(***************************************************************************)
T_FILES_LIST == <<"{","{","F","I","L","E","S","_","L","I","S","T","}","}">>
Templates_INDEX == <<"<","u","l",">">> \o T_FILES_LIST \o <<"<","/","u","l",">">>
Templates_UPLOAD == <<"<","f","o","r","m",">">>
Templates_BAD_REQUEST == <<"<","p",">","4","0","0","<","/","p",">">>
Templates_ACCESS_DENIED == <<"<","p",">","4","0","3","<","/","p",">">>
Templates_FILE_NOT_FOUND == <<"<","p",">","4","0","4","<","/","p",">">>
Templates_PAGE_NOT_FOUND == <<"<","p",">","n","o"," ","p","a","g","e","<","/","p",">">>
Templates_SERVER_ERROR == <<"<","p",">","5","0","0","<","/","p",">">>

(***************************************************************************)
(* common.rs: FileManager.                                                 *)
(***************************************************************************)
\* BufferedFile
BufferedFile(name, content) == [name |-> name, content |-> content]

\* the end of save_file, from the location File::create has opened
save_at(f, loc, buffered_file) ==
  IF ~loc.ok THEN [res |-> Err("IO"), fs |-> f]
  ELSE IF loc.v \in DOMAIN f /\ f[loc.v].kind = "special"
    THEN [res |-> IF buffered_file.content = <<>> THEN Ok(<<>>) ELSE Err("IO"), fs |-> f]
  ELSE [res |-> Ok(<<>>), fs |-> WriteFile(f, loc.v, buffered_file.content)]

\* FileManager::save_file: the file is created (or truncated) at dir joined
\* with the raw name and the content written; the result and the filesystem
save_file(f, dir, buffered_file) ==
  save_at(f, CreateLocation(f, PathJoin(dir, buffered_file.name)), buffered_file)

RECURSIVE OrdersOf(_)
\* the orders in which the elements of a finite set may come
OrdersOf(S) ==
  IF S = {} THEN {<<>>}
  ELSE UNION {{<<x>> \o p : p \in OrdersOf(S \ {x})} : x \in S}

\* the entry names of the directory at a resolved node, in every order
ReadDirNode(f, r) ==
  IF ~r.ok \/ f[r.v].kind # "dir" THEN {Err("IO")}
  ELSE {Ok(entries) : entries \in OrdersOf({p[Len(p)] : p \in Children(f, r.v)})}

\* fs::read_dir: the entry names of a directory, in an order the operating
\* system chooses: the set of the results a call may have
ReadDir(f, dir) == ReadDirNode(f, Resolve(f, dir))

RECURSIVE traverse_dir(_, _, _, _)
RECURSIVE TraverseEntries(_, _, _, _, _)
RECURSIVE TraverseEntry(_, _, _, _, _, _, _)
RECURSIVE TraverseSub(_, _, _, _, _)
\* the relative path of an entry
RelativeFilePath(relative_path, file_name) ==
  IF relative_path = <<>> THEN file_name
  ELSE relative_path \o T_slash \o file_name

\* the loop of traverse_dir over the entries of one directory: the results it
\* may have, one for each order the directories below hand out
TraverseEntries(f, dir, entries, files, relative_path) ==
  IF entries = <<>> THEN {Ok(files)}
  ELSE TraverseEntry(f, dir, entries, files, relative_path,
                     PathJoin(dir, Head(entries)),
                     RelativeFilePath(relative_path, Head(entries)))

\* the body of the loop for the first entry
TraverseEntry(f, dir, entries, files, relative_path, full_path, relative_file_path) ==
  IF ~IsUtf8(Head(entries)) THEN {Err("IO")}
  ELSE IF IsDir(f, full_path)
  THEN UNION {TraverseSub(f, dir, entries, relative_path, sub) :
                sub \in traverse_dir(f, full_path, files, relative_file_path)}
  ELSE TraverseEntries(f, dir, Tail(entries),
                       Append(files, <<relative_file_path, to_string_lossy(full_path)>>),
                       relative_path)

\* the loop after the traversal sub of a subdirectory
TraverseSub(f, dir, entries, relative_path, sub) ==
  IF ~sub.ok THEN {sub}
  ELSE TraverseEntries(f, dir, Tail(entries), sub.v, relative_path)

\* traverse_dir from the entries read
TraverseRead(f, dir, entries, files, relative_path) ==
  IF ~entries.ok THEN {entries}
  ELSE TraverseEntries(f, dir, entries.v, files, relative_path)

\* FileManager::traverse_dir: the files of a directory and, recursively, of its
\* subdirectories, each with its path relative to the first directory; the
\* results it may have, each read_dir of the walk choosing its own order
traverse_dir(f, dir, files, relative_path) ==
  UNION {TraverseRead(f, dir, entries, files, relative_path) :
           entries \in ReadDir(f, dir)}

\* FileManager::list_files_with_paths: the results it may have
list_files_with_paths(f, dir) == traverse_dir(f, dir, <<>>, <<>>)

(***************************************************************************)
(* handlers.rs: RequestHandler.                                            *)
(***************************************************************************)
allowed_extensions ==
  {<<"t","x","t">>, <<"p","n","g">>, <<"j","p","g">>, <<"p","d","f">>}

\* RequestHandler::validate_filename with the extension check left out
validate_filename_any_extension(path) ==
  IF ~FileName(path).some \/ FileName(path).v = <<>> THEN Err("Invalid")
  ELSE Ok(<<>>)

\* RequestHandler::validate_filename
validate_filename(path) ==
  IF ~FileName(path).some THEN Err("Invalid")
  ELSE IF FileName(path).v = <<>> THEN Err("Invalid")
  ELSE IF ~Extension(path).some THEN Err("Invalid")
  ELSE IF Extension(path).v \notin allowed_extensions THEN Err("Invalid")
  ELSE Ok(<<>>)

\* PathBuf::pop: the last component is removed when the path has a parent
PathBufPop(cs) ==
  IF cs = <<>> \/ cs[Len(cs)] = T_slash THEN cs ELSE SubSeq(cs, 1, Len(cs) - 1)

\* PathBuf::push of one component: the root replaces the path
PathBufPush(cs, c) == IF c = T_slash THEN <<T_slash>> ELSE Append(cs, c)

\* the text of a path built from components
ComponentsText(cs) ==
  IF cs # <<>> /\ cs[1] = T_slash THEN T_slash \o Join(Tail(cs), T_slash)
  ELSE Join(cs, T_slash)

RECURSIVE ResolveComponents(_, _)
\* the loop of resolve_traversals
ResolveComponents(cs, normalized) ==
  IF cs = <<>> THEN normalized
  ELSE ResolveComponents(Tail(cs),
         IF Head(cs) = T_dotdot THEN PathBufPop(normalized)
         ELSE IF Head(cs) = T_dot THEN normalized
         ELSE PathBufPush(normalized, Head(cs)))

\* RequestHandler::resolve_traversals: the lexical normalisation of a path
resolve_traversals(path) == ComponentsText(ResolveComponents(Components(path), <<>>))

\* the containment test of view_file
view_is_contained(resolved_path, canonicalized_base_path) ==
  PathStartsWith(resolved_path, canonicalized_base_path)

\* the end of view_file, from the two canonicalized paths
view_file_resolved(resolved_path, canonicalized_base_path) ==
  IF ~resolved_path.ok THEN Err("NotFound")
  ELSE IF ~canonicalized_base_path.ok THEN Err("Unknown")
  ELSE IF view_is_contained(resolved_path.v, canonicalized_base_path.v)
    THEN Ok(Response("Ok", EmptyMap, BodyFile(to_string_lossy(resolved_path.v))))
  ELSE Err("NotPermitted")

\* view_file after the name is trimmed, the result of its validation ignored
view_file_unvalidated(f, valid, base_path, requested_path) ==
  view_file_resolved(Canonicalize(f, requested_path), Canonicalize(f, base_path))

\* view_file after the name is trimmed, valid the result of its validation
view_file_trimmed(f, valid, base_path, requested_path) ==
  IF ~valid.ok THEN valid
  ELSE view_file_resolved(Canonicalize(f, requested_path),
                          Canonicalize(f, base_path))

\* view_file on the trimmed name
view_file_named(f, filename) ==
  view_file_trimmed(f, validate_filename(filename), T_uploads,
                    PathJoin(T_uploads, filename))

\* RequestHandler::view_file
view_file(f, filename) ==
  view_file_named(f, TrimStartMatches(TrimStartMatches(filename, T_slash),
                                      T_uploads_slash))

\* RequestHandler::get_file_upload_view
get_file_upload_view == Ok(Response("Ok", EmptyMap, BodyText(Templates_UPLOAD)))

\* RequestBody
RequestBodyEmpty == [kind |-> "Empty"]
RequestBodyMultipart(file) == [kind |-> "Multipart", file |-> file]

\* the end of upload_file, from the result of save_file
upload_file_saved(saved) ==
  IF ~saved.res.ok THEN saved
  ELSE [res |-> Ok(Response("SeeOther",
                            MapInsert(EmptyMap, HttpHeader_LOCATION, T_slash),
                            BodyEmpty)),
        fs |-> saved.fs]

\* upload_file on the file of a multipart body, valid the result of the
\* validation of its name
upload_file_checked(f, uploaded_file, valid, resolved_path) ==
  IF ~valid.ok THEN [res |-> valid, fs |-> f]
  ELSE IF ~PathStartsWith(resolved_path, T_uploads_slash)
    THEN [res |-> Err("NotPermitted"), fs |-> f]
  ELSE upload_file_saved(save_file(f, T_uploads, uploaded_file))

\* an upload that answers a request without a form with the redirection
upload_file_any_body(f, request_body) ==
  IF request_body.kind # "Multipart" THEN upload_file_saved([res |-> Ok(<<>>), fs |-> f])
  ELSE upload_file_checked(f, request_body.file,
         validate_filename(request_body.file.name),
         resolve_traversals(PathJoin(T_uploads, request_body.file.name)))

\* RequestHandler::upload_file: the result and the filesystem it leaves
upload_file(f, request_body) ==
  IF request_body.kind # "Multipart" THEN [res |-> Err("Invalid"), fs |-> f]
  ELSE upload_file_checked(f, request_body.file,
         validate_filename(request_body.file.name),
         resolve_traversals(PathJoin(T_uploads, request_body.file.name)))

RECURSIVE Replace(_, _, _)
RECURSIVE ReplaceAt(_, _, _, _)
\* str::replace: every occurrence of pat becomes rep
Replace(s, pat, rep) == ReplaceAt(s, pat, rep, Find(s, pat))

\* the same, the first occurrence of pat at position i
ReplaceAt(s, pat, rep, i) ==
  IF i = 0 THEN s
  ELSE SubSeq(s, 1, i - 1) \o rep \o Replace(Drop(s, i + Len(pat) - 1), pat, rep)

\* the list item list_files writes for one file
FileLink(name, path) ==
  <<"<","l","i",">","<","a"," ","h","r","e","f","=","\"">> \o path
    \o <<"\"",">">> \o name \o <<"<","/","a",">","<","/","l","i",">">>

\* RequestHandler::list_files, from the files listed on
list_files_page(files) ==
  IF ~files.ok THEN files
  ELSE Ok(Response("Ok", EmptyMap,
            BodyText(Replace(Templates_INDEX, T_FILES_LIST,
              Join([i \in 1..Len(files.v) |-> FileLink(files.v[i][1], files.v[i][2])],
                   T_LF)))))

\* RequestHandler::list_files: the results it may have, one for each order
\* in which the files may be listed
list_files(f) ==
  {list_files_page(files) : files \in list_files_with_paths(f, T_uploads)}

(***************************************************************************)
(* http.rs: the request parser.  A stream is the text a client sends on    *)
(* its connection, then the end of the stream, or a failing read when      *)
(* fail is set.                                                            *)
(***************************************************************************)
Stream(data, fail) == [data |-> data, fail |-> fail]

\* read_line, the bytes of the line read: an error when they are not UTF-8
read_line_text(line, rest) ==
  [res |-> IF IsUtf8(line) THEN Ok(line) ELSE Err("ReadError"), rest |-> rest]

\* read_line, the next line feed at position i; a read that fails has taken
\* the bytes before it
read_line_at(stream, i) ==
  IF i # 0
  THEN read_line_text(SubSeq(stream.data, 1, i),
                      [stream EXCEPT !.data = Drop(stream.data, i)])
  ELSE IF stream.fail
  THEN [res |-> Err("ReadError"), rest |-> [stream EXCEPT !.data = <<>>]]
  ELSE read_line_text(stream.data, [stream EXCEPT !.data = <<>>])

\* BufRead::read_line: the text up to and including the next line feed, or
\* what is left at the end of the stream
read_line(stream) == read_line_at(stream, Find(stream.data, T_LF))

\* Read::read_exact: n bytes, or an error when the stream has fewer, the bytes
\* it had being read by then
read_exact(stream, n) ==
  IF n <= Len(stream.data)
  THEN [res |-> Ok(SubSeq(stream.data, 1, n)),
        rest |-> [stream EXCEPT !.data = Drop(stream.data, n)]]
  ELSE [res |-> Err("ReadError"), rest |-> [stream EXCEPT !.data = <<>>]]

T_GET == <<"G","E","T">>
T_POST == <<"P","O","S","T">>

\* the method an upper case text names
HttpMethod_of(m) ==
  CASE m = T_GET -> Ok("Get")
    [] m = T_POST -> Ok("Post")
    [] m = <<"P","U","T">> -> Ok("Put")
    [] m = <<"P","A","T","C","H">> -> Ok("Patch")
    [] m = <<"D","E","L","E","T","E">> -> Ok("Delete")
    [] m = <<"H","E","A","D">> -> Ok("Head")
    [] m = <<"O","P","T","I","O","N","S">> -> Ok("Options")
    [] m = <<"T","R","A","C","E">> -> Ok("Trace")
    [] m = <<"C","O","N","N","E","C","T">> -> Ok("Connect")
    [] OTHER -> Err("Invalid")

\* TryFrom<String> for HttpMethod
HttpMethod_try_from(value) == HttpMethod_of(ToUpper(value))

\* the request line of the parts, method the result of reading the first
request_line_of(parts, method) ==
  IF ~method.ok THEN Err("Invalid")
  ELSE IF Len(parts) < 2 THEN Err("Invalid")
  ELSE IF Len(parts) < 3 THEN Err("Invalid")
  ELSE Ok([method |-> method.v, path |-> parts[2], http_version |-> parts[3]])

\* Request::extract_request_line, on the parts of the line
extract_request_line_parts(parts) ==
  IF Len(parts) < 1 THEN Err("Invalid")
  ELSE request_line_of(parts, HttpMethod_try_from(parts[1]))

\* the request line taken apart at its first two spaces only, the rest of the
\* line, its line ending included, being the version
extract_request_line_splitn(request_line) ==
  extract_request_line_parts(SplitN(request_line, 3, " "))

\* Request::extract_request_line: the line is taken apart at its white space
extract_request_line(request_line) ==
  extract_request_line_parts(SplitWhitespace(request_line))

\* the words with their first character in upper case, joined with '-'
header_case_words(words) ==
  Join([i \in 1..Len(words) |->
          IF words[i] = <<>> THEN <<>>
          ELSE <<ToUpperChar(words[i][1])>> \o Tail(words[i])],
       <<"-">>)

\* Request::to_header_case: the first character of every '-' separated word in
\* upper case, the other characters as they are
to_header_case(s) == header_case_words(Split(s, "-"))

RECURSIVE extract_headers_loop(_, _)
RECURSIVE extract_headers_line(_, _)
RECURSIVE extract_headers_pair(_, _, _)
\* the loop of Request::extract_headers, from the line read on
extract_headers_line(line, headers) ==
  IF ~line.res.ok THEN [res |-> Err("Invalid"), rest |-> line.rest]
  ELSE IF line.res.v = T_CRLF THEN [res |-> Ok(headers), rest |-> line.rest]
  ELSE extract_headers_pair(line, headers, SplitOnce(line.res.v, <<":">>))

\* the same from the line split at its first ':'
extract_headers_pair(line, headers, kv) ==
  IF ~kv.some THEN [res |-> Err("Invalid"), rest |-> line.rest]
  ELSE extract_headers_loop(line.rest,
         MapInsert(headers, to_header_case(Trim(kv.v[1])), Trim(kv.v[2])))

\* the loop of Request::extract_headers
extract_headers_loop(stream, headers) == extract_headers_line(read_line(stream), headers)

\* Request::extract_headers
extract_headers(stream) == extract_headers_loop(stream, EmptyMap)

\* a limit of one byte less than 50 MiB
MAX_FILE_SIZE_less == 50 * 1024 * 1024 - 1

\* MultiPartFormExtractor::MAX_FILE_SIZE
MAX_FILE_SIZE == 50 * 1024 * 1024

T_multipart == <<"m","u","l","t","i","p","a","r","t","/","f","o","r","m","-","d","a","t","a">>
T_boundary_eq == <<"b","o","u","n","d","a","r","y","=">>
T_dashes == <<"-","-">>

\* the file name of a parameter of a Content-Disposition line
form_filename_eq(eq) ==
  IF ~eq.some THEN None ELSE Some(TrimMatches(Trim(eq.v[2]), "\""))

\* the file name of a Content-Disposition line split at its last ';'
form_filename_semi(semi) ==
  IF ~semi.some THEN None ELSE form_filename_eq(SplitOnce(semi.v[2], <<"=">>))

\* the file name of a Content-Disposition line of a form body
form_filename(content_disposition) ==
  form_filename_semi(RSplitOnce(content_disposition, <<";">>))

\* the end of an extraction that keeps the file data as it is in the body
form_file_named_raw(parts, filename) ==
  IF ~filename.some THEN Err("Invalid")
  ELSE IF Len(parts) < 2 THEN Err("Invalid")
  ELSE IF Len(parts) < 3 THEN Err("Invalid")
  ELSE Ok(BufferedFile(filename.v, parts[3]))

\* the end of MultiPartFormExtractor::extract, from the file name read
form_file_named(parts, filename) ==
  IF ~filename.some THEN Err("Invalid")
  ELSE IF Len(parts) < 2 THEN Err("Invalid")
  ELSE IF Len(parts) < 3 THEN Err("Invalid")
  ELSE Ok(BufferedFile(filename.v, Trim(parts[3])))

\* the end of MultiPartFormExtractor::extract, on the lines of the form body:
\* the Content-Disposition line, the Content-Type line and the file data
form_file_parts(parts) == form_file_named(parts, form_filename(parts[1]))

\* the form body, its boundaries taken off, turned into a file
form_file(form_body) ==
  IF ~form_body.some THEN Err("Invalid")
  ELSE form_file_parts(SplitN(Trim(form_body.v), 3, "\n"))

\* the text between the opening and the closing boundary, when both are there
strip_suffix_boundary(body, boundary) ==
  IF ~body.some THEN None
  ELSE StripSuffix(body.v, T_dashes \o boundary \o T_dashes)
strip_boundaries(form_body, boundary) ==
  strip_suffix_boundary(StripPrefix(form_body, T_dashes \o boundary), boundary)

\* String::from_utf8: the bytes as text, when they are UTF-8
String_from_utf8(bytes) == IF IsUtf8(bytes) THEN Ok(bytes) ELSE Err("Invalid")

\* MultiPartFormExtractor::extract, from the decoding of the body on
extract_form_text(boundary, form_body) ==
  IF ~form_body.ok THEN Err("Invalid")
  ELSE form_file(strip_boundaries(Trim(form_body.v), boundary))

\* MultiPartFormExtractor::extract, from the reading of the body on
extract_form_body(boundary, form_body_buffer) ==
  IF ~form_body_buffer.res.ok THEN Err("Invalid")
  ELSE extract_form_text(boundary, String_from_utf8(form_body_buffer.res.v))

\* MultiPartFormExtractor::extract, from the content type split at "boundary="
extract_boundary(stream, boundary, content_length) ==
  IF ~boundary.some THEN Err("Invalid")
  ELSE extract_form_body(Trim(boundary.v[2]), read_exact(stream, content_length))

\* MultiPartFormExtractor::extract
MultiPartFormExtractor_extract(stream, content_type, content_length) ==
  IF content_length > MAX_FILE_SIZE THEN Err("Invalid")
  ELSE extract_boundary(stream, SplitOnce(content_type, T_boundary_eq), content_length)

\* Result::map of RequestBody::Multipart
multipart_body(uploaded_file) ==
  IF uploaded_file.ok THEN Ok(RequestBodyMultipart(uploaded_file.v)) ELSE uploaded_file

\* HashMap::get
MapGet(m, k) == IF k \in DOMAIN m THEN Some(m[k]) ELSE None

\* Option::map of str::parse::<usize>, transposed: the number of a header that
\* is there, an error when it is there and is no number
parse_content_length(value) ==
  IF ~value.some THEN Ok(None)
  ELSE IF ~ParseUsize(value.v).some THEN Err("Invalid")
  ELSE Ok(ParseUsize(value.v))

\* Request::extract_body, from the two headers read
extract_body_of(stream, content_length, content_type_header) ==
  IF ~content_length.ok THEN content_length
  ELSE IF ~content_length.v.some \/ content_length.v.v = 0 \/ ~content_type_header.some
    THEN Ok(RequestBodyEmpty)
  ELSE IF StartsWith(content_type_header.v, T_multipart)
    THEN multipart_body(MultiPartFormExtractor_extract(stream, content_type_header.v,
                                                       content_length.v.v))
  ELSE Err("Invalid")

\* Request::extract_body
extract_body(stream, headers) ==
  extract_body_of(stream, parse_content_length(MapGet(headers, HttpHeader_CONTENT_LENGTH)),
                  MapGet(headers, HttpHeader_CONTENT_TYPE))

\* MultiPartFormExtractor::extract: the stream it leaves, read only once the
\* length is within the limit and the content type names a boundary
MultiPartFormExtractor_rest(stream, content_type, content_length) ==
  IF content_length > MAX_FILE_SIZE THEN stream
  ELSE IF ~SplitOnce(content_type, T_boundary_eq).some THEN stream
  ELSE read_exact(stream, content_length).rest

\* Request::extract_body: the stream it leaves, from the two headers read
extract_body_rest_of(stream, content_length, content_type_header) ==
  IF ~content_length.ok THEN stream
  ELSE IF ~content_length.v.some \/ content_length.v.v = 0 \/ ~content_type_header.some
    THEN stream
  ELSE IF StartsWith(content_type_header.v, T_multipart)
    THEN MultiPartFormExtractor_rest(stream, content_type_header.v, content_length.v.v)
  ELSE stream

\* Request::extract_body: the stream it leaves
extract_body_rest(stream, headers) ==
  extract_body_rest_of(stream, parse_content_length(MapGet(headers, HttpHeader_CONTENT_LENGTH)),
                       MapGet(headers, HttpHeader_CONTENT_TYPE))

\* Request::try_new, from the body on
try_new_body(request_line, headers, body) ==
  IF ~body.ok THEN body
  ELSE Ok([path |-> request_line.v.path, method |-> request_line.v.method,
           http_version |-> request_line.v.http_version,
           headers |-> headers.res.v, body |-> body.v])

\* Request::try_new, from the headers on
try_new_headers(request_line, headers) ==
  IF ~headers.res.ok THEN headers.res
  ELSE try_new_body(request_line, headers, extract_body(headers.rest, headers.res.v))

\* Request::try_new, from the request line on
try_new_line(line, request_line) ==
  IF ~request_line.ok THEN request_line
  ELSE try_new_headers(request_line, extract_headers(line.rest))

\* Request::try_new, from the first line read on
try_new_read(line) ==
  IF ~line.res.ok THEN Err("IO")
  ELSE try_new_line(line, extract_request_line(line.res.v))

\* Request::try_new
try_new(stream) == try_new_read(read_line(stream))

(***************************************************************************)
(* http.rs and common.rs: the response serializer.                         *)
(***************************************************************************)
\* HttpStatus::get_reason_phrase
get_reason_phrase(status) ==
  CASE status = "Ok" -> <<"O","K">>
    [] status = "SeeOther" -> <<"S","E","E"," ","O","T","H","E","R">>
    [] status = "Forbidden" -> <<"F","O","R","B","I","D","D","E","N">>
    [] status = "NotFound" -> <<"N","O","T"," ","F","O","U","N","D">>
    [] status = "ServerError" -> <<"S","E","R","V","E","R"," ","E","R","R","O","R">>

T_text_html == <<"t","e","x","t","/","h","t","m","l">>

\* the content type of an extension
content_type_of(ext) ==
  CASE ext = Some(<<"h","t","m","l">>) ->
         T_text_html \o <<";"," ","c","h","a","r","s","e","t","=","U","T","F","-","8">>
    [] ext = Some(<<"c","s","s">>) -> <<"t","e","x","t","/","c","s","s">>
    [] ext = Some(<<"j","s">>) ->
         <<"a","p","p","l","i","c","a","t","i","o","n","/","j","a","v","a","s","c","r","i","p","t">>
    [] ext = Some(<<"p","n","g">>) -> <<"i","m","a","g","e","/","p","n","g">>
    [] ext \in {Some(<<"j","p","g">>), Some(<<"j","p","e","g">>)} ->
         <<"i","m","a","g","e","/","j","p","e","g">>
    [] ext = Some(<<"g","i","f">>) -> <<"i","m","a","g","e","/","g","i","f">>
    [] ext = Some(<<"p","d","f">>) ->
         <<"a","p","p","l","i","c","a","t","i","o","n","/","p","d","f">>
    [] ext = Some(<<"j","s","o","n">>) ->
         <<"a","p","p","l","i","c","a","t","i","o","n","/","j","s","o","n">>
    [] ext = Some(T_txt) -> <<"t","e","x","t","/","p","l","a","i","n">>
    [] OTHER ->
         <<"a","p","p","l","i","c","a","t","i","o","n","/","o","c","t","e","t","-","s","t","r","e","a","m">>

\* Response::get_content_type
get_content_type(file_path) == content_type_of(Extension(file_path))

\* the end of TryFrom<&Path> for BufferedFile, from the name, the file opened
\* and the reading
BufferedFile_read(name, file, content) ==
  IF ~name.some THEN Err("Invalid")
  ELSE IF ~IsUtf8(name.v) THEN Err("Invalid")
  ELSE IF ~file.ok THEN Err("NotFound")
  ELSE IF ~content.ok THEN Err("IO")
  ELSE Ok(BufferedFile(name.v, content.v))

\* TryFrom<&Path> for BufferedFile
BufferedFile_try_from(f, path) ==
  IF ~Exists(f, path) THEN Err("NotFound")
  ELSE IF IsDir(f, path) THEN Err("NotFound")
  ELSE BufferedFile_read(FileName(path), File_open(f, path), ReadFile(f, path))

\* Result::map of Some
ok_some(uploaded_file) ==
  IF uploaded_file.ok THEN Ok(Some(uploaded_file.v)) ELSE uploaded_file

\* TryFrom<ResponseBody> for Option<BufferedFile>
ResponseBody_try_into(f, value) ==
  CASE value.kind = "File" -> ok_some(BufferedFile_try_from(f, value.v))
    [] value.kind = "Text" -> Ok(Some(BufferedFile(T_response_html, value.v)))
    [] value.kind = "Empty" -> Ok(None)

\* headers of a file body with a Content-Disposition whatever its content type
file_headers_disposition(headers, file, content_type) ==
  MapInsert(MapInsert(MapInsert(headers, HttpHeader_CONTENT_LENGTH,
                                NatToText(Vec_len(file.content))),
                      HttpHeader_CONTENT_TYPE, content_type),
            HttpHeader_CONTENT_DISPOSITION,
            <<"i","n","l","i","n","e",";"," ","f","i","l","e","n","a","m","e","=","\"">>
              \o file.name \o <<"\"">>)

\* the headers written for a file of the given content type
file_headers(headers, file, content_type) ==
  IF ~StartsWith(content_type, T_text_html)
  THEN MapInsert(MapInsert(MapInsert(headers, HttpHeader_CONTENT_LENGTH,
                                     NatToText(Vec_len(file.content))),
                           HttpHeader_CONTENT_TYPE, content_type),
                 HttpHeader_CONTENT_DISPOSITION,
                 <<"i","n","l","i","n","e",";"," ","f","i","l","e","n","a","m","e","=","\"">>
                   \o file.name \o <<"\"">>)
  ELSE MapInsert(MapInsert(headers, HttpHeader_CONTENT_LENGTH,
                           NatToText(Vec_len(file.content))),
                 HttpHeader_CONTENT_TYPE, content_type)

\* headers of a body in which the values of the caller are kept where the
\* caller gave one
computed_headers_kept(headers, file) ==
  IF file.some
  THEN headers @@ file_headers(EmptyMap, file.v, get_content_type(file.v.name))
  ELSE headers @@ MapInsert(EmptyMap, HttpHeader_CONTENT_LENGTH, <<"0">>)

\* the headers Response::to_bytes writes for a body: the computed headers put
\* over the headers of the response
computed_headers(headers, file) ==
  IF file.some THEN file_headers(headers, file.v, get_content_type(file.v.name))
  ELSE MapInsert(headers, HttpHeader_CONTENT_LENGTH, <<"0">>)

\* the orders in which a HashMap may hand out its keys
KeyOrders(headers) ==
  {o \in [1..Cardinality(DOMAIN headers) -> DOMAIN headers] :
     \A i, j \in DOMAIN o : i # j => o[i] # o[j]}

\* the status line and the header lines, in the order the map hands them out
head_bytes(response, headers, order) ==
  response.http_version \o <<" ">> \o NatToText(get_status_code(response.status))
    \o <<" ">> \o get_reason_phrase(response.status) \o T_CRLF
    \o Cat([i \in 1..Len(order) |-> order[i] \o <<":"," ">> \o headers[order[i]] \o T_CRLF])
    \o T_CRLF

\* the headers written once the body is read
written_headers_of(response, file) ==
  IF file.ok THEN computed_headers(response.headers, file.v) ELSE response.headers

\* the headers Response::to_bytes writes for a response
written_headers(f, response) ==
  written_headers_of(response, ResponseBody_try_into(f, response.body))

\* Response::to_bytes that writes the head and forgets the body bytes
to_bytes_of_head_only(response, file, order) ==
  IF ~file.ok THEN file
  ELSE Ok(head_bytes(response, computed_headers(response.headers, file.v), order))

\* Response::to_bytes, from the body read on
to_bytes_of(response, file, order) ==
  IF ~file.ok THEN file
  ELSE Ok(head_bytes(response, computed_headers(response.headers, file.v), order)
            \o (IF file.v.some THEN file.v.v.content ELSE <<>>))

\* Response::to_bytes, the map handing out its keys in the given order
to_bytes(f, response, order) ==
  to_bytes_of(response, ResponseBody_try_into(f, response.body), order)

(***************************************************************************)
(* common.rs: the date and time of the log lines.  The timestamp is the    *)
(* number of seconds since the Unix epoch; the year is a u16, the days     *)
(* left a u64.                                                             *)
(***************************************************************************)

\* is_leap_year
is_leap_year(year) == (year % 4 = 0 /\ year % 100 # 0) \/ (year % 400 = 0)

\* the number of days of a year
days_in_year(year) == IF is_leap_year(year) THEN 366 ELSE 365

RECURSIVE year_loop(_, _, _)
\* get_current_military_time, the loop over the years: the year is counted up
\* first and the days of the year it then names are subtracted; the result is
\* the year and the days left.  checked is the build: with overflow checks
\* the u16 addition at 65535 and the u64 subtraction below zero panic,
\* without them the year wraps to 0 and the days wrap to about 2^64
year_loop(days_since_epoch, current_year, checked) ==
  IF days_since_epoch >= days_in_year(current_year)
  THEN IF checked /\ current_year = 65535 THEN Err("Panic")
       ELSE IF days_since_epoch < days_in_year((current_year + 1) % 65536)
         THEN IF checked THEN Err("Panic") ELSE Err("Wrapped")
       ELSE year_loop(days_since_epoch - days_in_year((current_year + 1) % 65536),
                      (current_year + 1) % 65536, checked)
  ELSE Ok([year |-> current_year, days |-> days_since_epoch])

\* get_current_military_time, days_in_months
days_in_months(current_year) ==
  <<31, IF is_leap_year(current_year) THEN 29 ELSE 28, 31, 30, 31, 30, 31, 31, 30, 31, 30, 31>>

RECURSIVE month_loop(_, _, _)
\* get_current_military_time, the loop over the months: the days of a month
\* are subtracted and the month counted up until the subtraction would go
\* below zero
month_loop(days_since_epoch, months, current_month) ==
  IF current_month > Len(months) \/ days_since_epoch < months[current_month]
  THEN [month |-> current_month, days |-> days_since_epoch]
  ELSE month_loop(days_since_epoch - months[current_month], months, current_month + 1)

\* a number written with two digits at least
Pad2(n) == IF n < 10 THEN <<"0">> \o NatToText(n) ELSE NatToText(n)

\* format!("{current_year}-{current_month:02}-{current_day:02}T{hour:02}:{minute:02}:{seconds:02}")
format_military_time(year, month, day, hour, minute, seconds) ==
  NatToText(year) \o <<"-">> \o Pad2(month) \o <<"-">> \o Pad2(day) \o <<"T">>
    \o Pad2(hour) \o <<":">> \o Pad2(minute) \o <<":">> \o Pad2(seconds)

\* get_current_military_time from the month loop on: the day is a u8
military_time_of_month(year, m, seconds_in_current_day) ==
  format_military_time(year, m.month, ((m.days % 256) + 1) % 256,
                       seconds_in_current_day \div 3600,
                       (seconds_in_current_day % 3600) \div 60,
                       (seconds_in_current_day % 60) % 60)

\* get_current_military_time from the year loop on.  After a subtraction
\* below zero in a build without overflow checks the loop goes on over some
\* 10^16 years: the outcome "Wrapped"
military_time_of_year(y, seconds_in_current_day) ==
  IF ~y.ok THEN y
  ELSE Ok(military_time_of_month(y.v.year,
                                 month_loop(y.v.days, days_in_months(y.v.year), 1),
                                 seconds_in_current_day))

\* get_current_military_time, timestamp the result of get_current_timestamp:
\* the outcomes it may have, one for each build
get_current_military_time(timestamp) ==
  {military_time_of_year(year_loop(timestamp \div 86400, 1970, checked),
                         timestamp % 86400) : checked \in BOOLEAN}

(***************************************************************************)
(* handlers.rs: the router and the error pages.                            *)
(***************************************************************************)
\* warn! and log_error!: the macro calls get_current_military_time and prints
\* the line; value is what the caller goes on to return.  When the call
\* panics or stays in its loop, so does the caller: the outcomes of the two
\* builds
log_line(timestamp, value) ==
  {IF military_time.ok THEN Ok(value) ELSE military_time :
     military_time \in get_current_military_time(timestamp)}

\* whether a call has not returned: it panicked, or it is still in the loop
\* over the years
Unwinds(r) == ~r.ok /\ r.kind \in {"Panic", "Wrapped"}

\* ErrorHandler::handle_invalid_page_request, called at the time timestamp:
\* the response returned, or the failure of its warn!
handle_invalid_page_request(http_method, path, timestamp) ==
  log_line(timestamp, Response("NotFound", EmptyMap, BodyText(Templates_PAGE_NOT_FOUND)))

\* ErrorHandler::handle_bad_request
handle_bad_request == Response("NotFound", EmptyMap, BodyText(Templates_BAD_REQUEST))

\* ErrorHandler::handle_access_denied
handle_access_denied == Response("Forbidden", EmptyMap, BodyText(Templates_ACCESS_DENIED))

\* ErrorHandler::handle_invalid_file_request
handle_invalid_file_request ==
  Response("NotFound", EmptyMap, BodyText(Templates_FILE_NOT_FOUND))

\* ErrorHandler::handle_server_error
handle_server_error == Response("ServerError", EmptyMap, BodyText(Templates_SERVER_ERROR))

\* ErrorHandler::map_error_to_handler, called at the time timestamp: every
\* arm logs the error and returns the page of its handler; the response
\* returned, or the failure of the warn! or log_error!
map_error_to_handler(app_error, timestamp) ==
  log_line(timestamp,
           CASE app_error.kind = "Invalid" -> handle_bad_request
             [] app_error.kind = "NotFound" -> handle_invalid_file_request
             [] app_error.kind = "NotPermitted" -> handle_access_denied
             [] app_error.kind = "IO" -> handle_server_error
             [] app_error.kind = "Unknown" -> handle_server_error)

T_upload_path == <<"/","u","p","l","o","a","d">>

\* Router::route_request, the arm of the match that a request takes, by the
\* handler it calls
route_request_handler(request) ==
  CASE request.method = "Get" /\ request.path = T_slash -> "list_files"
    [] request.method = "Get" /\ StartsWith(request.path, T_slash \o T_uploads) -> "view_file"
    [] request.method = "Get" /\ request.path = T_upload_path -> "get_file_upload_view"
    [] request.method = "Post" /\ request.path = T_upload_path -> "upload_file"
    [] OTHER -> "handle_invalid_page_request"

\* Router::route_request, the call of the handler: the result and the
\* filesystem it leaves, for each outcome the call may have
route_request_to(f, request, handler, timestamp) ==
  CASE handler = "list_files" -> {[res |-> res, fs |-> f] : res \in list_files(f)}
    [] handler = "view_file" -> {[res |-> view_file(f, request.path), fs |-> f]}
    [] handler = "get_file_upload_view" -> {[res |-> get_file_upload_view, fs |-> f]}
    [] handler = "upload_file" -> {upload_file(f, request.body)}
    [] handler = "handle_invalid_page_request" ->
         {[res |-> res, fs |-> f] :
            res \in handle_invalid_page_request(request.method, request.path, timestamp)}

\* Router::route_request, called at the time timestamp: the result and the
\* filesystem it leaves, for each outcome the call may have; a result that
\* Unwinds is a call that has not returned
route_request(f, request, timestamp) ==
  route_request_to(f, request, route_request_handler(request), timestamp)

(***************************************************************************)
(* main.rs: the request parser, the handlers and the serializer that       *)
(* handle_connection runs.  Their errors are texts: one kind, "Error".     *)
(***************************************************************************)
\* TryFrom<String> for Method
Method_try_from(value) ==
  CASE value = T_GET -> Ok("Get")
    [] value = T_POST -> Ok("Post")
    [] value = <<"P","U","T">> -> Ok("Put")
    [] value = <<"P","A","T","C","H">> -> Ok("Patch")
    [] value = <<"D","E","L","E","T","E">> -> Ok("Delete")
    [] value = <<"H","E","A","D">> -> Ok("Head")
    [] value = <<"O","P","T","I","O","N","S">> -> Ok("Options")
    [] value = <<"T","R","A","C","E">> -> Ok("Trace")
    [] value = <<"C","O","N","N","E","C","T">> -> Ok("Connect")
    [] OTHER -> Err("Error")

\* the request line of the parts in main.rs, method the reading of the first
main_request_line_of(parts, method) ==
  IF ~method.ok THEN Err("Error")
  ELSE IF Len(parts) < 2 THEN Err("Error")
  ELSE IF Len(parts) < 3 THEN Err("Error")
  ELSE Ok([method |-> method.v, path |-> parts[2], http_version |-> parts[3]])

\* Request::extract_request_line of main.rs, on the parts of the line
main_extract_request_line_parts(parts) ==
  main_request_line_of(parts, Method_try_from(parts[1]))

\* Request::extract_request_line of main.rs
main_extract_request_line(request_line) ==
  main_extract_request_line_parts(SplitN(request_line, 3, " "))

RECURSIVE main_extract_headers_loop(_, _)
RECURSIVE main_extract_headers_line(_, _)
RECURSIVE main_extract_headers_pair(_, _, _)
\* the loop of Request::extract_headers of main.rs, from the line read on
main_extract_headers_line(line, headers) ==
  IF ~line.res.ok THEN [res |-> Err("Error"), rest |-> line.rest]
  ELSE IF line.res.v = T_CRLF THEN [res |-> Ok(headers), rest |-> line.rest]
  ELSE main_extract_headers_pair(line, headers, SplitOnce(line.res.v, <<":">>))

\* the same from the line split at its first ':'
main_extract_headers_pair(line, headers, kv) ==
  IF ~kv.some THEN [res |-> Err("Error"), rest |-> line.rest]
  ELSE main_extract_headers_loop(line.rest,
         MapInsert(headers, Trim(kv.v[1]), Trim(kv.v[2])))

\* the loop of Request::extract_headers of main.rs
main_extract_headers_loop(stream, headers) ==
  main_extract_headers_line(read_line(stream), headers)

\* Request::extract_headers of main.rs
main_extract_headers(stream) == main_extract_headers_loop(stream, EmptyMap)

\* the errors of main.rs are texts: one kind
main_error(result) == IF result.ok THEN result ELSE Err("Error")

\* MultiPartForm::extract, from the content type split at "boundary="
main_extract_boundary(stream, boundary) ==
  IF ~boundary.some THEN Err("Error")
  ELSE IF stream.fail \/ ~IsUtf8(stream.data) THEN Err("Error")
  ELSE main_error(form_file(strip_boundaries(Trim(stream.data), Trim(boundary.v[2]))))

\* MultiPartForm::extract: the form body is what the stream holds up to its
\* end, read as text (read_to_string: an error when it is not UTF-8)
MultiPartForm_extract(stream, content_type) ==
  main_extract_boundary(stream, SplitOnce(content_type, T_boundary_eq))

\* Request::extract_body of main.rs, from the two headers read
main_extract_body_of(stream, content_length, content_type_header) ==
  IF ~content_length.ok THEN Err("Error")
  ELSE IF ~content_length.v.some \/ content_length.v.v = 0 \/ ~content_type_header.some
    THEN Ok(RequestBodyEmpty)
  ELSE IF StartsWith(content_type_header.v, T_multipart)
    THEN multipart_body(MultiPartForm_extract(stream, content_type_header.v))
  ELSE Err("Error")

\* Request::extract_body of main.rs
main_extract_body(stream, headers) ==
  main_extract_body_of(stream,
                       parse_content_length(MapGet(headers, HttpHeader_CONTENT_LENGTH)),
                       MapGet(headers, HttpHeader_CONTENT_TYPE))

\* Request::try_new of main.rs, from the headers on
main_try_new_headers(request_line, headers) ==
  IF ~headers.res.ok THEN headers.res
  ELSE try_new_body(request_line, headers, main_extract_body(headers.rest, headers.res.v))

\* Request::try_new of main.rs, from the request line on
main_try_new_line(line, request_line) ==
  IF ~request_line.ok THEN request_line
  ELSE main_try_new_headers(request_line, main_extract_headers(line.rest))

\* Request::try_new of main.rs, from the first line read on
main_try_new_read(line) ==
  IF ~line.res.ok THEN Err("Error")
  ELSE main_try_new_line(line, main_extract_request_line(line.res.v))

\* Request::try_new of main.rs
main_try_new(stream) == main_try_new_read(read_line(stream))

\* the paths of the error pages and of the page templates
TemplatePath(name) == T_templates \o T_slash \o name

\* ErrorHandler of main.rs
main_handle_invalid_page_request ==
  Response("NotFound", EmptyMap, BodyFile(TemplatePath(T_page_not_found_html)))
main_handle_invalid_file_request ==
  Response("NotFound", EmptyMap, BodyFile(TemplatePath(T_file_not_found_html)))
main_handle_access_denied ==
  Response("Forbidden", EmptyMap, BodyFile(TemplatePath(T_access_denied_html)))
main_handle_server_error ==
  Response("ServerError", EmptyMap, BodyFile(TemplatePath(T_server_error_html)))

\* OsString::into_string followed by unwrap_or_default: the empty text for a
\* name that is not UTF-8
into_string_or_default(name) == IF IsUtf8(name) THEN name ELSE <<>>

\* list_files_with_paths of main.rs, from the entries read
main_files_of(dir, entries) ==
  IF ~entries.ok THEN entries
  ELSE Ok([i \in 1..Len(entries.v) |->
             <<into_string_or_default(entries.v[i]),
               to_string_lossy(PathJoin(dir, entries.v[i]))>>])

\* list_files_with_paths of main.rs: the entries of one directory; the
\* results it may have, one for each order read_dir may choose
main_list_files_with_paths(f, dir) ==
  {main_files_of(dir, entries) : entries \in ReadDir(f, dir)}

\* RequestHandler::list_files of main.rs, from the template read on
main_list_files_page(template, files) ==
  IF ~template.ok THEN [ok |-> FALSE, v |-> main_handle_server_error]
  ELSE IF ~files.ok THEN [ok |-> FALSE, v |-> main_handle_server_error]
  ELSE Ok(Response("Ok", EmptyMap,
            BodyText(Replace(template.v, T_FILES_LIST,
              Join([i \in 1..Len(files.v) |-> FileLink(files.v[i][1], files.v[i][2])],
                   T_LF)))))

\* Read::read_to_string on a file opened: its content, when it is UTF-8
read_to_string(file) ==
  IF ~file.ok THEN file
  ELSE IF IsUtf8(file.v) THEN file
  ELSE Err("InvalidData")

\* RequestHandler::list_files of main.rs: the results it may have
main_list_files(f) ==
  {main_list_files_page(read_to_string(ReadFile(f, TemplatePath(T_index_html))), files) :
     files \in main_list_files_with_paths(f, T_uploads)}

\* the end of view_file of main.rs, from the two canonicalized paths
main_view_file_resolved(resolved_path, canonicalized_base_path) ==
  IF ~resolved_path.ok THEN [ok |-> FALSE, v |-> main_handle_invalid_file_request]
  ELSE IF ~canonicalized_base_path.ok THEN [ok |-> FALSE, v |-> main_handle_server_error]
  ELSE IF PathStartsWith(resolved_path.v, canonicalized_base_path.v)
    THEN Ok(Response("Ok", EmptyMap, BodyFile(to_string_lossy(resolved_path.v))))
  ELSE [ok |-> FALSE, v |-> main_handle_access_denied]

\* RequestHandler::view_file of main.rs
main_view_file(f, filename) ==
  main_view_file_resolved(
    Canonicalize(f, PathJoin(T_uploads,
                   TrimStartMatches(TrimStartMatches(filename, T_slash), T_uploads_slash))),
    Canonicalize(f, T_uploads))

\* RequestHandler::view_to_upload_files
view_to_upload_files == Ok(Response("Ok", EmptyMap, BodyFile(TemplatePath(T_upload_html))))

\* UploadedFile of main.rs
UploadedFile(name, content) == [name |-> name, content |-> content]

\* the end of TryFrom<&Path> for UploadedFile, from the name, the file opened
\* and the reading, whose failure is unwrapped: the thread panics
UploadedFile_read(name, file, content) ==
  IF ~name.some THEN Err("Error")
  ELSE IF ~IsUtf8(name.v) THEN Err("Error")
  ELSE IF ~file.ok THEN Err("Error")
  ELSE IF ~content.ok THEN Err("Panic")
  ELSE Ok(UploadedFile(name.v, content.v))

\* TryFrom<&Path> for UploadedFile
UploadedFile_try_from(f, path) ==
  IF ~Exists(f, path) THEN Err("Error")
  ELSE IF IsDir(f, path) THEN Err("Error")
  ELSE UploadedFile_read(FileName(path), File_open(f, path), ReadFile(f, path))

\* TryFrom<ResponseBody> for Option<UploadedFile>
main_ResponseBody_try_into(f, value) ==
  CASE value.kind = "File" -> ok_some(UploadedFile_try_from(f, value.v))
    [] value.kind = "Text" -> Ok(Some(UploadedFile(T_response_html, value.v)))
    [] value.kind = "Empty" -> Ok(None)

\* Response::to_http_response, from the body read on
to_http_response_of(response, file, order) ==
  IF file = Err("Panic") THEN file
  ELSE IF ~file.ok THEN [ok |-> FALSE, v |-> main_handle_invalid_file_request]
  ELSE Ok([headers |-> head_bytes(response,
                                   computed_headers(response.headers, file.v), order),
           body |-> IF file.v.some THEN Some(file.v.v.content) ELSE None])

\* Response::to_http_response: the head and the body to write, or the error
\* page to send instead
to_http_response(f, response, order) ==
  to_http_response_of(response, main_ResponseBody_try_into(f, response.body), order)

\* the match of handle_connection on the method and the path of the request:
\* the results the handler called may have
connection_route(f, request) ==
  CASE request.method = "Get" /\ request.path = T_slash -> main_list_files(f)
    [] request.method = "Get" /\ StartsWith(request.path, T_slash \o T_uploads) ->
         {main_view_file(f, request.path)}
    [] request.method = "Get" /\ request.path = T_upload_path -> {view_to_upload_files}
    [] OTHER -> {[ok |-> FALSE, v |-> main_handle_invalid_page_request]}

\* handle_connection, the error page serialized in the place of a response
\* that could not be: the job panics when the error page cannot be either
connection_fallback(second) ==
  IF second.ok
  THEN [outcome |-> "Ok",
        written |-> second.v.headers
                      \o (IF second.v.body.some THEN second.v.body.v ELSE <<>>)]
  ELSE [outcome |-> "Panic", written |-> <<>>]

\* handle_connection, from the serialized response on
connection_write(f, first, order) ==
  IF first.ok \/ first = Err("Panic") THEN connection_fallback(first)
  ELSE connection_fallback(to_http_response(f, first.v, order))

\* the headers of the response handle_connection serializes for a parsed
\* request: those of the response, or of the error page in its place
connection_headers_of(f, response) ==
  IF main_ResponseBody_try_into(f, response.body).ok
  THEN written_headers_of(response, main_ResponseBody_try_into(f, response.body))
  ELSE written_headers_of(main_handle_invalid_file_request,
                          main_ResponseBody_try_into(f, main_handle_invalid_file_request.body))

\* handle_connection, from the result of the handler on, for every order in
\* which the header map may hand out its keys
connection_routed(f, routed) ==
  {connection_write(f, to_http_response(f, routed.v, order), order) :
     order \in KeyOrders(connection_headers_of(f, routed.v))}

\* handle_connection, from the request parsed on: a request that fails to
\* parse ends the job, nothing written
connection_request(f, request) ==
  IF ~request.ok THEN {[outcome |-> "Err", written |-> <<>>]}
  ELSE UNION {connection_routed(f, routed) : routed \in connection_route(f, request.v)}

\* handle_connection: how the job may end, and the bytes it has written to
\* the connection by then.  Writes to the connection are taken to succeed.
handle_connection(f, stream) == connection_request(f, main_try_new(stream))

(***************************************************************************)
(* The state.                                                              *)
(***************************************************************************)
VARIABLES
  fs,        \* the filesystem
  last,      \* the last call observed: its operation, argument and result
  uploaded,  \* the uploads that returned the 303 response: name and location
  queue,     \* the channel of the pool: the jobs sent and not yet received
  lock,      \* the worker holding the mutex of the receiver, 0 when it is free
  workers,   \* per worker, where it is in its loop and the job it has received
  conns,     \* per accepted connection, what has happened to its job
  listener   \* the main thread: "accepting" connections, or "panicked"

filesVars == <<fs, last, uploaded>>
poolVars == <<queue, lock, workers, conns, listener>>
vars == <<fs, last, uploaded, queue, lock, workers, conns, listener>>

\* the number of workers of the pool
PoolSize == 2
Workers == 1..PoolSize

\* main and ThreadPool::new: the listener is bound, the workers are in their
\* loop, about to take the lock, and nothing has been sent on the channel
InitPool ==
  /\ queue = <<>>
  /\ lock = 0
  /\ workers = [w \in Workers |-> [pc |-> "lock", job |-> 0]]
  /\ conns = <<>>
  /\ listener = "accepting"

(***************************************************************************)
(* The filesystem at startup: the working directory /srv with the uploads  *)
(* directory and the templates in it, files outside of it, and symbolic    *)
(* links inside uploads, one staying inside and two leaving it, and        *)
(* /proc/self/mem, which opens and cannot be read.                         *)
(***************************************************************************)
TemplateFiles ==
  (<<T_srv, T_templates>> :> Dir)
  @@ (<<T_srv, T_templates, T_index_html>> :> RegularFile(Templates_INDEX))
  @@ (<<T_srv, T_templates, T_upload_html>> :> RegularFile(Templates_UPLOAD))
  @@ (<<T_srv, T_templates, T_page_not_found_html>> :> RegularFile(Templates_PAGE_NOT_FOUND))
  @@ (<<T_srv, T_templates, T_file_not_found_html>> :> RegularFile(Templates_FILE_NOT_FOUND))
  @@ (<<T_srv, T_templates, T_access_denied_html>> :> RegularFile(Templates_ACCESS_DENIED))
  @@ (<<T_srv, T_templates, T_server_error_html>> :> RegularFile(Templates_SERVER_ERROR))

BareFiles ==
  (<<>> :> Dir)
  @@ (<<T_etc>> :> Dir)
  @@ (<<T_etc, T_passwd>> :> RegularFile(<<"r","o","o","t">>))
  @@ (<<T_etc, T_motd_txt>> :> RegularFile(<<"m">>))
  @@ (<<T_proc>> :> Dir)
  @@ (<<T_proc, T_self>> :> Dir)
  @@ (<<T_proc, T_self, T_mem>> :> Unreadable)
  @@ (<<T_uploads>> :> Dir)
  @@ (<<T_srv>> :> Dir)
  @@ (<<T_srv, T_uploads>> :> Dir)
  @@ (<<T_srv, T_uploads, T_a_txt>> :> RegularFile(<<"A">>))
  @@ (<<T_srv, T_uploads, T_sub>> :> Dir)
  @@ (<<T_srv, T_uploads, T_sub, T_b_png>> :> RegularFile(<<"B">>))
  @@ (<<T_srv, T_uploads, T_in_txt>> :> Symlink(<<T_srv, T_uploads, T_sub, T_b_png>>))
  @@ (<<T_srv, T_uploads, T_out_txt>> :> Symlink(<<T_etc, T_motd_txt>>))
  @@ (<<T_srv, T_uploads, T_ext>> :> Symlink(<<T_etc>>))

FS0 == BareFiles @@ TemplateFiles

\* a file name that is not UTF-8
T_bFF_txt == <<"b", ByteFF, ".","t","x","t">>

\* the same with a file in uploads whose name is not UTF-8, and a symbolic
\* link to it whose name is
LossyFiles ==
  FS0
  @@ (<<T_srv, T_uploads, T_bFF_txt>> :> RegularFile(<<"x">>))
  @@ (<<T_srv, T_uploads, T_l_txt>> :> Symlink(<<T_srv, T_uploads, T_bFF_txt>>))

\* the same directories and files before any symbolic link is put in uploads
PlainFiles == [p \in {q \in DOMAIN FS0 : FS0[q].kind # "link"} |-> FS0[p]]

(***************************************************************************)
(* The inputs of the handler calls: filenames put together from a prefix,  *)
(* up to MaxDirs directory pieces and a base name.                         *)
(***************************************************************************)
MaxDirs == 2
MaxUploadDirs == 3
MaxUploads == 1

\* the sequences of at most n elements of S
SeqsUpTo(S, n) == UNION {[1..k -> S] : k \in 0..n}

ViewPrefixes ==
  {<<>>, T_uploads_slash, T_slash \o T_uploads_slash,
   T_slash \o T_uploads_slash \o T_uploads_slash}
ViewDirs == {T_dotdot \o T_slash, T_sub \o T_slash, T_ext \o T_slash}
ViewBases ==
  {T_a_txt, T_b_png, T_in_txt, T_out_txt, T_l_txt, T_motd_txt, <<>>,
   T_etc \o T_slash \o T_passwd}
ViewInputs ==
  {p \o Cat(d) \o b : p \in ViewPrefixes, d \in SeqsUpTo(ViewDirs, MaxDirs), b \in ViewBases}

UploadDirs == {T_dotdot \o T_slash, T_uploads_slash, T_ext \o T_slash}
PlainNames ==
  {T_x_txt, T_a_txt, T_out_txt, T_note_txt, T_dot \o T_txt, <<"x">>, <<"x",".">>,
   <<"x",".","e","x","e">>, <<"x",".","p","n","g">>, <<"x",".","j","p","g">>,
   <<"x",".","p","d","f">>, <<"X",".","T","X","T">>, T_x_txt \o T_slash \o T_dot,
   T_dotdot, <<>>, T_slash \o T_etc \o T_slash \o T_x_txt, T_sub \o T_slash \o T_x_txt,
   <<"n","o","n","e">> \o T_slash \o T_x_txt}
UploadNames ==
  {Cat(d) \o b : d \in SeqsUpTo(UploadDirs, MaxUploadDirs), b \in {T_x_txt, T_a_txt}}
    \cup PlainNames
UploadBodies ==
  {RequestBodyEmpty} \cup {RequestBodyMultipart(BufferedFile(n, T_hi)) : n \in UploadNames}

(***************************************************************************)
(* The handlers called one after the other on the filesystem.              *)
(***************************************************************************)
NoCall == [op |-> "none", arg |-> <<>>, res |-> Ok(<<>>)]

InitFiles ==
  /\ fs = FS0
  /\ last = NoCall
  /\ uploaded = {}
  /\ InitPool

\* a call of RequestHandler::view_file
ViewFile ==
  /\ last = NoCall
  /\ \E filename \in ViewInputs :
    /\ last' = [op |-> "view_file", arg |-> filename, res |-> view_file(fs, filename)]
    /\ UNCHANGED <<fs, uploaded, poolVars>>

\* a call of RequestHandler::upload_file
UploadFile ==
  /\ last = NoCall
  /\ Cardinality(uploaded) < MaxUploads
  /\ \E request_body \in UploadBodies :
       \E r \in {upload_file(fs, request_body)} :
         /\ fs' = r.fs
         /\ last' = [op |-> "upload_file", arg |-> request_body, res |-> r.res]
         /\ uploaded' =
              IF r.res.ok
              THEN uploaded \cup
                     {[name |-> request_body.file.name,
                       loc |-> CreateLocation(fs, PathJoin(T_uploads,
                                                request_body.file.name)).v]}
              ELSE uploaded
         /\ UNCHANGED poolVars

\* a call of RequestHandler::list_files
ListFiles ==
  /\ last = NoCall
  /\ \E res \in list_files(fs) :
       last' = [op |-> "list_files", arg |-> <<>>, res |-> res]
  /\ UNCHANGED <<fs, uploaded, poolVars>>

\* the caller takes the result: the next call can be made
Return ==
  /\ last # NoCall
  /\ last' = NoCall
  /\ UNCHANGED <<fs, uploaded, poolVars>>

NextFiles == ViewFile \/ UploadFile \/ Return

SpecFiles == InitFiles /\ [][NextFiles]_vars

\* the views of the files, of uploads with and without a name that is not
\* UTF-8
InitView ==
  /\ fs \in {FS0, LossyFiles}
  /\ last = NoCall
  /\ uploaded = {}
  /\ InitPool

NextView == ViewFile \/ Return

SpecView == InitView /\ [][NextView]_vars

\* the uploads and the listings of the files
NextList == UploadFile \/ ListFiles \/ Return

SpecList == InitFiles /\ [][NextList]_vars

(***************************************************************************)
(* Properties of the handlers (SpecFiles).                                 *)
(***************************************************************************)
\* whether no name on the way to the node p is a symbolic link
LinkFree(f, p) == \A k \in 1..Len(p) : f[SubSeq(p, 1, k)].kind # "link"

\* the paths whose node differs between two filesystems
Changed(f, g) ==
  {p \in DOMAIN g : p \notin DOMAIN f \/ f[p] # g[p]} \cup (DOMAIN f \ DOMAIN g)

\* C3: whenever view_file returns a response, its body is a File whose path is
\* the canonical (absolute, link-free) text of an existing node that lies
\* under the canonical uploads root, whatever the client-supplied path; in
\* every other case view_file returns an error
C3_ViewFileContained ==
  last.op = "view_file" =>
    IF last.res.ok
    THEN /\ last.res.v.body.kind = "File"
         /\ LET r == Resolve(fs, last.res.v.body.v)
                root == Resolve(fs, T_uploads)
            IN  /\ r.ok /\ root.ok
                /\ PathText(r.v) = last.res.v.body.v
                /\ LinkFree(fs, r.v)
                /\ IsPrefix(root.v, r.v)
    ELSE last.res.kind \in {"Invalid", "NotFound", "NotPermitted", "Unknown"}

\* C4: an upload_file call changes nothing outside the uploads directory:
\* it fails and writes nothing, or the file it writes lies inside uploads
C4_UploadStaysInside ==
  [][(last.op = "none" /\ last'.op = "upload_file") =>
       IF last'.res.ok
       THEN \A p \in Changed(fs, fs') : IsPrefix(UploadsRoot, p)
       ELSE fs' = fs]_vars

C5Inputs ==
  {T_dotdot \o T_slash \o T_dotdot \o T_slash \o T_etc \o T_slash \o T_passwd,
   T_slash \o T_uploads_slash \o T_dotdot \o T_slash \o T_dotdot \o T_slash
     \o T_etc \o T_slash \o T_passwd}

\* C5 as stated: view_file of "../../etc/passwd" and of
\* "/uploads/../../etc/passwd" fails with NotPermitted or NotFound
C5_TraversalNotPermittedOrNotFound ==
  (last.op = "view_file" /\ last.arg \in C5Inputs) =>
    (~last.res.ok /\ last.res.kind \in {"NotPermitted", "NotFound"})

\* C5, amended: view_file of "../../etc/passwd" and of
\* "/uploads/../../etc/passwd" fails with Invalid, the name "passwd" having no
\* allowed extension, and so yields no path at all
C5_TraversalInvalid ==
  (last.op = "view_file" /\ last.arg \in C5Inputs) =>
    (~last.res.ok /\ last.res.kind = "Invalid")

\* view_file has been called with "/uploads/../../etc/passwd", and the file
\* /etc/passwd this path names exists
C5_Witness ==
  /\ last.op = "view_file"
  /\ last.arg = T_slash \o T_uploads_slash \o T_dotdot \o T_slash \o T_dotdot \o T_slash
                  \o T_etc \o T_slash \o T_passwd
  /\ ~last.res.ok
  /\ Exists(fs, PathJoin(T_uploads, TrimStartMatches(TrimStartMatches(last.arg, T_slash),
                                                     T_uploads_slash)))

\* the extension of a base file name as the claim reads it: the text after
\* its last '.', when that '.' is not its first character
ClaimExtension(base) ==
  IF RFind(base, T_dot) <= 1 THEN None ELSE Some(Drop(base, RFind(base, T_dot)))

\* a name upload_file may accept: a non-empty base with an allowed extension
Acceptable(name) ==
  /\ FileName(name).some
  /\ FileName(name).v # <<>>
  /\ ClaimExtension(FileName(name).v).some
  /\ ClaimExtension(FileName(name).v).v \in
       {<<"t","x","t">>, <<"p","n","g">>, <<"j","p","g">>, <<"p","d","f">>}

\* C6: upload_file accepts a multipart file only if its base name is non-empty
\* and its extension is one of txt, png, jpg, pdf; with any other name it fails
\* with Invalid and leaves the filesystem as it was; x.txt, x.png, x.jpg and
\* x.pdf pass the validation (the upload is not Invalid)
C6_UploadValidatesName ==
  [][(last.op = "none" /\ last'.op = "upload_file" /\ last'.arg.kind = "Multipart") =>
       LET name == last'.arg.file.name
       IN  /\ last'.res.ok => Acceptable(name)
           /\ ~Acceptable(name) =>
                (~last'.res.ok /\ last'.res.kind = "Invalid" /\ fs' = fs)
           /\ name \in {<<"x",".","t","x","t">>, <<"x",".","p","n","g">>,
                        <<"x",".","j","p","g">>, <<"x",".","p","d","f">>} =>
                (last'.res.ok \/ last'.res.kind # "Invalid")]_vars

\* upload_file has rejected x.exe
C6_Witness ==
  /\ last.op = "upload_file"
  /\ last.arg.kind = "Multipart"
  /\ last.arg.file.name = <<"x",".","e","x","e">>
  /\ ~last.res.ok

RECURSIVE Hrefs(_)
RECURSIVE HrefsFrom(_, _)
RECURSIVE HrefsIn(_)
RECURSIVE HrefsTo(_, _)
\* the href values of the links of an HTML text, in order
Hrefs(s) == HrefsFrom(s, Find(s, <<"h","r","e","f","=","\"">>))

\* the same, the first href=" at position i
HrefsFrom(s, i) == IF i = 0 THEN <<>> ELSE HrefsIn(Drop(s, i + 5))

\* the href values of a text that starts inside the quotes of one
HrefsIn(rest) == HrefsTo(rest, Find(rest, <<"\"">>))

\* the same, the closing quote at position j
HrefsTo(rest, j) ==
  IF j = 0 THEN <<>> ELSE <<SubSeq(rest, 1, j - 1)>> \o Hrefs(Drop(rest, j))

\* the files under uploads: the nodes below the uploads root that are not
\* directories, by their path relative to the working directory
FilesUnderUploads(f) ==
  {Join(SubSeq(p, Len(Cwd) + 1, Len(p)), T_slash) :
     p \in {q \in DOMAIN f : IsPrefix(UploadsRoot, q) /\ q # UploadsRoot
                             /\ ~IsDir(f, PathText(q))}}

\* C8: after a successful upload of F, list_files returns status 200 with an
\* HTML text that has one link per file under uploads, among them a link whose
\* href names the file the upload of F wrote
C8_ListShowsUploaded ==
  last.op = "list_files" =>
    /\ last.res.ok
    /\ get_status_code(last.res.v.status) = 200
    /\ last.res.v.body.kind = "Text"
    /\ LET hrefs == Hrefs(last.res.v.body.v)
       IN  /\ \A h \in FilesUnderUploads(fs) :
                Cardinality({i \in 1..Len(hrefs) : hrefs[i] = h}) = 1
           /\ \A u \in uploaded :
                \E i \in 1..Len(hrefs) : Resolve(fs, hrefs[i]) = Ok(u.loc)

(***************************************************************************)
(* Requests handled one after the other: the parser, the router and the    *)
(* serializer of http.rs and handlers.rs on the text of a request.         *)
(***************************************************************************)
T_HTTP11 == <<"H","T","T","P","/","1",".","1">>
T_disp_head == <<"C","o","n","t","e","n","t","-","D","i","s","p","o","s","i","t","i","o","n",":"," ","f","o","r","m","-","d","a","t","a",";"," ","n","a","m","e","=","\"","f","i","l","e","\"",";"," ","f","i","l","e","n","a","m","e","=","\"">>
T_part_type == <<"C","o","n","t","e","n","t","-","T","y","p","e",":"," ","t","e","x","t","/","p","l","a","i","n">>
T_x_exe == <<"x",".","e","x","e">>
T_nope == <<"/","n","o","p","e">>
T_BOGUS == <<"B","O","G","U","S">>
T_sp == <<" ">>
T_colon_sp == <<":"," ">>
T_B == <<"B">>

\* a character in lower case
ToLowerChar(c) ==
  IF \E i \in 1..26 : UpperLetters[i] = c
  THEN LowerLetters[CHOOSE i \in 1..26 : UpperLetters[i] = c]
  ELSE c
ToLower(s) == [i \in 1..Len(s) |-> ToLowerChar(s[i])]

\* the letter cases in which a client may send a header name: as the server
\* writes it, all lower, all upper, and only its first letter upper
Casings(name) ==
  {name, ToLower(name), ToUpper(name), <<name[1]>> \o ToLower(Tail(name))}

\* the request lines of the requests
RequestLine(method, path) == method \o T_sp \o path \o T_sp \o T_HTTP11 \o T_CRLF

RequestLines ==
  {RequestLine(T_POST, T_upload_path), RequestLine(T_GET, T_slash),
   RequestLine(T_GET, T_slash \o T_uploads_slash \o T_a_txt),
   RequestLine(T_GET, T_upload_path), RequestLine(T_GET, T_nope),
   RequestLine(T_BOGUS, T_slash)}

\* a multipart form body with one file
FormBody(filename, content) ==
  T_dashes \o T_B \o T_CRLF
    \o T_disp_head \o filename \o <<"\"">> \o T_CRLF
    \o T_part_type \o T_CRLF \o T_CRLF
    \o content \o T_CRLF
    \o T_dashes \o T_B \o T_dashes \o T_CRLF

\* the text of a request: its line, and with a form the two headers of the
\* form, named as the client likes, and the form body
RequestText(p) ==
  IF p.form
  THEN p.line
         \o p.length_name \o T_colon_sp
         \o (IF p.declared THEN NatToText(Len(FormBody(p.filename, p.content))) ELSE <<"0">>)
         \o T_CRLF
         \o p.type_name \o T_colon_sp \o T_multipart \o <<";"," ">> \o T_boundary_eq \o T_B
         \o T_CRLF \o T_CRLF
         \o FormBody(p.filename, p.content)
  ELSE p.line \o T_CRLF

NoForm(line) ==
  [line |-> line, form |-> FALSE, length_name |-> HttpHeader_CONTENT_LENGTH,
   type_name |-> HttpHeader_CONTENT_TYPE, declared |-> TRUE,
   filename |-> <<>>, content |-> <<>>]

RequestParts ==
  {NoForm(line) : line \in RequestLines} \cup
  [line : RequestLines, form : {TRUE},
   length_name : Casings(HttpHeader_CONTENT_LENGTH),
   type_name : Casings(HttpHeader_CONTENT_TYPE),
   declared : BOOLEAN, filename : {T_note_txt, T_x_exe}, content : {T_hi}]

\* the tokens and the white space request lines are made of
MaxTokens == 3
LineTokens ==
  {T_GET, <<"g","e","t">>, <<"P","o","s","t">>, T_BOGUS, T_slash, T_upload_path, T_HTTP11}
LineSeparators == {T_sp, <<" "," ">>, <<"\t">>}
LineEndings == {T_CRLF, T_LF, <<>>}

\* the response to a request and what it leaves: the request parsed, routed,
\* an error turned into its page, and the response serialized
respond_body(response, file, timestamp) ==
  IF file.ok THEN {Ok(response)} ELSE map_error_to_handler(file, timestamp)
respond_final(f, response, timestamp) ==
  respond_body(response, ResponseBody_try_into(f, response.body), timestamp)
\* the responses a result may be answered with, or the failure of the call
\* that logs its error
respond_pages(f, res, timestamp) ==
  IF Unwinds(res) THEN {res}
  ELSE IF res.ok THEN respond_final(f, res.v, timestamp)
  ELSE map_error_to_handler(res, timestamp)
\* returns tells whether the job has come to its response
respond_routed(parsed, routed, timestamp) ==
  {[parsed |-> parsed, res |-> routed.res, fs |-> routed.fs, returns |-> page.ok,
    response |-> IF page.ok THEN page.v ELSE page] :
     page \in respond_pages(routed.fs, routed.res, timestamp)}
respond_parsed(f, parsed, timestamp) ==
  UNION {respond_routed(parsed, routed, timestamp) :
           routed \in IF parsed.ok THEN route_request(f, parsed.v, timestamp)
                      ELSE {[res |-> parsed, fs |-> f]}}
respond(f, text, timestamp) == respond_parsed(f, try_new(Stream(text, FALSE)), timestamp)

\* the times at which the requests are handled: a day like any other, and
\* 1 January 1972, the first day of a leap year
LogTimes == {0, 730 * 86400}

\* the server is started in its directory, no symbolic link in uploads
InitHttp ==
  /\ fs = PlainFiles
  /\ last = NoCall
  /\ uploaded = {}
  /\ InitPool

\* a call of Request::extract_request_line
ExtractRequestLine ==
  /\ last = NoCall
  /\ \E tokens \in SeqsUpTo(LineTokens, MaxTokens), sep \in LineSeparators,
        ending \in LineEndings :
       \E line \in {Join(tokens, sep) \o ending} :
         last' = [op |-> "extract_request_line",
                  arg |-> [tokens |-> tokens, line |-> line],
                  res |-> extract_request_line(line)]
  /\ UNCHANGED <<fs, uploaded, poolVars>>

\* a request of a client handled from its text to the bytes of the response
HandleRequest ==
  /\ last = NoCall
  /\ \E p \in RequestParts, timestamp \in LogTimes :
       \E r \in respond(fs, RequestText(p), timestamp) :
         /\ (r.res.ok /\ r.res.v.status = "SeeOther") => Cardinality(uploaded) < MaxUploads
         /\ IF r.returns
            THEN \E order \in KeyOrders(written_headers(r.fs, r.response)) :
                   last' = [op |-> "request", arg |-> p, parsed |-> r.parsed, res |-> r.res,
                            response |-> r.response,
                            bytes |-> to_bytes(r.fs, r.response, order).v]
            ELSE last' = [op |-> "unwound", arg |-> p, parsed |-> r.parsed, res |-> r.response]
         /\ fs' = r.fs
         /\ uploaded' =
              IF r.res.ok /\ r.res.v.status = "SeeOther"
              THEN uploaded \cup
                     {[name |-> r.parsed.v.body.file.name,
                       loc |-> CreateLocation(fs, PathJoin(T_uploads,
                                                r.parsed.v.body.file.name)).v]}
              ELSE uploaded
  /\ UNCHANGED poolVars

NextHttp == ExtractRequestLine \/ HandleRequest \/ Return

SpecHttp == InitHttp /\ [][NextHttp]_vars

(***************************************************************************)
(* Properties of the parser and of a request handled end to end (SpecHttp).*)
(***************************************************************************)
\* the methods of HTTP, by the token that names them
MethodTokens ==
  {[token |-> T_GET, method |-> "Get"], [token |-> T_POST, method |-> "Post"],
   [token |-> <<"P","U","T">>, method |-> "Put"],
   [token |-> <<"P","A","T","C","H">>, method |-> "Patch"],
   [token |-> <<"D","E","L","E","T","E">>, method |-> "Delete"],
   [token |-> <<"H","E","A","D">>, method |-> "Head"],
   [token |-> <<"O","P","T","I","O","N","S">>, method |-> "Options"],
   [token |-> <<"T","R","A","C","E">>, method |-> "Trace"],
   [token |-> <<"C","O","N","N","E","C","T">>, method |-> "Connect"]}

\* the methods a token names, read without regard to the case of its letters
MethodsNamed(token) == {m.method : m \in {k \in MethodTokens : k.token = ToUpper(token)}}

\* C9: for a line of three tokens separated by white space whose first token
\* names a method, extract_request_line returns that method, the second token
\* as the path and the third as the version, the line ending left out; for a
\* line of fewer than three tokens, and for a line whose first token names no
\* method, it fails with Invalid
C9_RequestLineParsed ==
  last.op = "extract_request_line" =>
    /\ (Len(last.arg.tokens) = 3 /\ MethodsNamed(last.arg.tokens[1]) # {}) =>
         /\ last.res.ok
         /\ last.res.v.method \in MethodsNamed(last.arg.tokens[1])
         /\ last.res.v.path = last.arg.tokens[2]
         /\ last.res.v.http_version = last.arg.tokens[3]
    /\ Len(last.arg.tokens) < 3 => (~last.res.ok /\ last.res.kind = "Invalid")
    /\ (Len(last.arg.tokens) >= 1 /\ MethodsNamed(last.arg.tokens[1]) = {}) =>
         (~last.res.ok /\ last.res.kind = "Invalid")

\* a line "get<TAB>/upload<TAB>HTTP/1.1" with its CRLF has been parsed
C9_Witness ==
  /\ last.op = "extract_request_line"
  /\ last.arg.tokens = <<<<"g","e","t">>, T_upload_path, T_HTTP11>>
  /\ last.arg.line = <<"g","e","t","\t">> \o T_upload_path \o <<"\t">> \o T_HTTP11 \o T_CRLF
  /\ last.res.ok

\* the request of last.arg with its two form headers named as the server
\* writes them
CanonicalCasing(p) ==
  [p EXCEPT !.length_name = HttpHeader_CONTENT_LENGTH,
            !.type_name = HttpHeader_CONTENT_TYPE]

\* C10: whatever the letter case in which a client sends the names of its
\* headers, the request is parsed, headers and body, as the same request with
\* the names in Header-Case is
C10_HeaderCaseInsensitive ==
  (last.op = "request" /\ last.arg.form) =>
    last.parsed = try_new(Stream(RequestText(CanonicalCasing(last.arg)), FALSE))

\* the requests of C7: POST /upload with the file note.txt of content "hi" in
\* a multipart body of the declared length
C7Request(p) ==
  /\ p.form
  /\ p.line = RequestLine(T_POST, T_upload_path)
  /\ p.declared
  /\ p.filename = T_note_txt
  /\ p.content = T_hi

\* C7: after a POST /upload with the file note.txt of content "hi", the file
\* uploads/note.txt holds exactly "hi" and the response written is a 303 with
\* the headers Location: / and Content-Length: 0 and no body
C7_UploadNoteTxt ==
  (last.op = "request" /\ C7Request(last.arg)) =>
    /\ ReadFile(fs, T_uploads_slash \o T_note_txt) = Ok(T_hi)
    /\ get_status_code(last.response.status) = 303
    /\ StartsWith(last.bytes, T_HTTP11 \o <<" ","3","0","3"," ">>)
    /\ Contains(last.bytes, T_CRLF \o HttpHeader_LOCATION \o T_colon_sp \o T_slash \o T_CRLF)
    /\ Contains(last.bytes, T_CRLF \o HttpHeader_CONTENT_LENGTH \o T_colon_sp \o <<"0">> \o T_CRLF)
    /\ EndsWith(last.bytes, T_CRLF \o T_CRLF)

(***************************************************************************)
(* main.rs: the thread pool.  The main thread accepts connections and      *)
(* sends one job per connection on the channel; each worker loops: it      *)
(* takes the mutex of the receiver, receives a job, lets go of the mutex   *)
(* at the end of the statement and runs the job, handle_connection.        *)
(***************************************************************************)
MaxConns == 3
MaxRuns == 2

\* what has happened to the job of a connection: how often it was sent, the
\* workers that received it, how often it ran, whether a response was
\* written, whether the connection is closed and whether the job was dropped
\* with the channel it waited on
Conn(sent) ==
  [sent |-> sent, received |-> {}, executed |-> 0, responded |-> FALSE,
   closed |-> FALSE, dropped |-> FALSE]

\* Sender::send
send(q, job) == Append(q, job)

\* Receiver::recv that hands out the job sent last
recv_last(q) == [job |-> q[Len(q)], rest |-> SubSeq(q, 1, Len(q) - 1)]

\* Receiver::recv on a channel that holds a job: the job, and the channel
\* without it
recv(q) == [job |-> Head(q), rest |-> Tail(q)]

\* the texts clients send on their connections
PoolRequests ==
  {RequestLine(T_GET, T_slash) \o T_CRLF,
   RequestLine(T_GET, T_slash \o T_uploads_slash \o T_a_txt) \o T_CRLF,
   RequestLine(T_POST, T_upload_path) \o T_CRLF,
   RequestLine(T_BOGUS, T_slash) \o T_CRLF,
   <<>>}

\* a working directory that holds neither the templates nor uploads
StrayFiles == (<<>> :> Dir) @@ (<<T_srv>> :> Dir)

\* the filesystems the server is started on: its directory with the
\* templates and uploads, or a directory without them
PoolFiles == {PlainFiles, StrayFiles}

\* the runs of handle_connection on a filesystem: the text the client has
\* sent, how the job ends and the bytes written to the connection, for every
\* order in which the directory and the header map hand out their entries
ConnectionRuns(f) ==
  UNION {{[arg |-> text, run |-> run] : run \in handle_connection(f, Stream(text, FALSE))} :
         text \in PoolRequests}
PoolRuns == [f \in PoolFiles |-> ConnectionRuns(f)]

\* the server is started in its directory, or in one without its templates
InitPoolSpec ==
  /\ fs \in PoolFiles
  /\ last = NoCall
  /\ uploaded = {}
  /\ InitPool

\* the loop of main and ThreadPool::execute: a connection is accepted and its
\* job sent on the channel; the send fails, and main panics dropping the
\* connection, once every worker thread has ended and with them the receiver
Execute ==
  /\ listener = "accepting"
  /\ Len(conns) < MaxConns
  /\ IF \E w \in Workers : workers[w].pc # "dead"
     THEN /\ queue' = send(queue, Len(conns) + 1)
          /\ conns' = Append(conns, Conn(1))
          /\ listener' = listener
     ELSE /\ queue' = queue
          /\ conns' = Append(conns, [Conn(0) EXCEPT !.closed = TRUE])
          /\ listener' = "panicked"
  /\ UNCHANGED <<fs, last, uploaded, lock, workers>>

\* a lock that is handed to a worker while another worker holds it
Lock_shared(w) ==
  /\ listener = "accepting"
  /\ workers[w].pc = "lock"
  /\ lock' = w
  /\ workers' = [workers EXCEPT ![w].pc = "recv"]
  /\ UNCHANGED <<fs, last, uploaded, queue, conns, listener>>

\* Worker::new, receiver.lock(): the worker takes the free mutex
Lock(w) ==
  /\ listener = "accepting"
  /\ workers[w].pc = "lock"
  /\ lock = 0
  /\ lock' = w
  /\ workers' = [workers EXCEPT ![w].pc = "recv"]
  /\ UNCHANGED <<fs, last, uploaded, queue, conns, listener>>

\* Worker::new, .recv(): the worker holding the mutex waits for a job and
\* takes it from the channel
Recv(w) ==
  /\ listener = "accepting"
  /\ workers[w].pc = "recv"
  /\ lock = w
  /\ queue # <<>>
  /\ \E r \in {recv(queue)} :
       /\ queue' = r.rest
       /\ workers' = [workers EXCEPT ![w] = [pc |-> "unlock", job |-> r.job]]
       /\ conns' = [conns EXCEPT ![r.job].received = @ \cup {w}]
  /\ UNCHANGED <<fs, last, uploaded, lock, listener>>

\* a guard of the mutex that is never dropped: the worker goes on to run its
\* job with the mutex still held
Unlock_held(w) ==
  /\ listener = "accepting"
  /\ workers[w].pc = "unlock"
  /\ lock = w
  /\ lock' = lock
  /\ workers' = [workers EXCEPT ![w].pc = "run"]
  /\ UNCHANGED <<fs, last, uploaded, queue, conns, listener>>

\* Worker::new, the end of the let statement: the guard of the mutex is dropped
Unlock(w) ==
  /\ listener = "accepting"
  /\ workers[w].pc = "unlock"
  /\ lock = w
  /\ lock' = 0
  /\ workers' = [workers EXCEPT ![w].pc = "run"]
  /\ UNCHANGED <<fs, last, uploaded, queue, conns, listener>>

\* Worker::new, job(): handle_connection runs on the connection of the job,
\* whose client has sent some text, up to its last write: it is about to
\* return, or it panics and the stack of the thread is about to unwind
Run(w) ==
  /\ listener = "accepting"
  /\ workers[w].pc = "run"
  /\ conns[workers[w].job].executed < MaxRuns
  /\ \E c \in PoolRuns[fs] :
       /\ last' = [op |-> "handle_connection", arg |-> c.arg, res |-> c.run.outcome,
                   bytes |-> c.run.written]
       /\ conns' = [conns EXCEPT ![workers[w].job] =
                      [@ EXCEPT !.executed = @ + 1,
                                !.responded = c.run.written # <<>>]]
       /\ workers' = [workers EXCEPT ![w].pc =
                        IF c.run.outcome = "Panic" THEN "unwind" ELSE "return"]
  /\ UNCHANGED <<fs, uploaded, queue, lock, listener>>

\* handle_connection returns or unwinds: the stream it owns is dropped, which
\* closes the connection; a job that returned leaves the worker in its loop,
\* a panic goes on to end the thread
Finish(w) ==
  /\ listener = "accepting"
  /\ workers[w].pc \in {"return", "unwind"}
  /\ conns' = [conns EXCEPT ![workers[w].job].closed = TRUE]
  /\ workers' = [workers EXCEPT ![w] =
                   [pc |-> IF workers[w].pc = "return" THEN "lock" ELSE "exit",
                    job |-> 0]]
  /\ UNCHANGED <<fs, last, uploaded, queue, lock, listener>>

\* the jobs of a channel dropped: each is dropped, and with it the stream it
\* owns, its connection closed with nothing written
DropJobs(cs, q) ==
  [c \in 1..Len(cs) |->
     IF \E i \in 1..Len(q) : q[i] = c
     THEN [cs[c] EXCEPT !.closed = TRUE, !.dropped = TRUE]
     ELSE cs[c]]

\* the thread of a worker whose job panicked ends, dropping its reference to
\* the receiver: the last thread to end drops the receiver, and with it the
\* channel and the jobs that wait on it
Exit(w) ==
  /\ listener = "accepting"
  /\ workers[w].pc = "exit"
  /\ workers' = [workers EXCEPT ![w].pc = "dead"]
  /\ IF \A v \in Workers \ {w} : workers[v].pc = "dead"
     THEN /\ queue' = <<>>
          /\ conns' = DropJobs(conns, queue)
     ELSE UNCHANGED <<queue, conns>>
  /\ UNCHANGED <<fs, last, uploaded, lock, listener>>

NextPool ==
  \/ Execute
  \/ \E w \in Workers : Lock(w)
  \/ \E w \in Workers : Recv(w)
  \/ \E w \in Workers : Unlock(w)
  \/ \E w \in Workers : Run(w)
  \/ \E w \in Workers : Finish(w)
  \/ \E w \in Workers : Exit(w)

SpecPool == InitPoolSpec /\ [][NextPool]_vars

(***************************************************************************)
(* Properties of the pool and of a connection handled by it (SpecPool).    *)
(***************************************************************************)
\* how often a job is on the channel
TimesQueued(job) == Cardinality({i \in 1..Len(queue) : queue[i] = job})

\* the workers that hold a job, received and not yet run to its end
Holders(job) == {w \in Workers : workers[w].pc \in {"unlock", "run"} /\ workers[w].job = job}

\* C1: a connection whose job has run is closed only after a response has
\* been written to it
C1_ResponseBeforeClose ==
  \A c \in 1..Len(conns) :
    (conns[c].executed > 0 /\ conns[c].closed) => conns[c].responded

\* C2: every job submitted through execute has been put on the channel once;
\* it is on the channel or exactly one worker has received it, never two
\* workers and never none with the job gone from the channel; it runs only in
\* the worker that received it, and at most once
C2_JobOnce ==
  \A c \in 1..Len(conns) :
    /\ conns[c].sent = 1
    /\ ~conns[c].dropped
    /\ TimesQueued(c) + Cardinality(conns[c].received) = 1
    /\ conns[c].executed <= 1
    /\ Holders(c) \subseteq conns[c].received
    /\ conns[c].executed = 1 => (conns[c].received # {} /\ Holders(c) = {})

(***************************************************************************)
(* http.rs: Response::to_bytes called on responses of every shape, built   *)
(* as ResponseBuilder builds them, on a filesystem whose uploads/a.txt     *)
(* holds some bytes.                                                       *)
(***************************************************************************)
MaxBytes == 2

T_blank_line == T_CRLF \o T_CRLF
T_attachment == <<"a","t","t","a","c","h","m","e","n","t">>

\* the bytes uploads/a.txt may hold, among them bytes with a blank line
FileContents ==
  SeqsUpTo({"h", "\r", "\n"}, MaxBytes)
    \cup {T_blank_line, T_hi \o T_blank_line \o <<"x">>}

\* the filesystem whose uploads/a.txt holds the bytes
BytesFiles(content) ==
  [FS0 EXCEPT ![<<T_srv, T_uploads, T_a_txt>>] = RegularFile(content)]

\* the paths by which the file a.txt of uploads is named
ATxtPaths ==
  {T_uploads_slash \o T_a_txt,
   T_slash \o T_srv \o T_slash \o T_uploads_slash \o T_a_txt,
   T_uploads_slash \o T_sub \o T_slash \o T_dotdot \o T_slash \o T_a_txt}

\* the bodies of the responses; one text holds a U+FFFD, as the list of files
\* does for a file name that is not UTF-8
ResponseBodies ==
  {BodyFile(p) : p \in ATxtPaths}
    \cup {BodyFile(T_uploads_slash \o T_sub \o T_slash \o T_b_png),
          BodyFile(T_uploads_slash \o T_x_txt),
          BodyFile(T_templates \o T_slash \o T_index_html),
          BodyFile(T_slash \o T_etc \o T_slash \o T_passwd),
          BodyFile(T_slash \o T_proc \o T_slash \o T_self \o T_slash \o T_mem),
          BodyText(<<"<","p",">">>), BodyText(<<"b", ReplacementChar>>), BodyEmpty}

\* the headers a caller may have put on a response: at most two of these
CallerHeaderLines ==
  {<<HttpHeader_CONTENT_LENGTH, <<"9","9">>>>, <<HttpHeader_CONTENT_TYPE, <<"x","/","y">>>>,
   <<HttpHeader_LOCATION, T_slash>>, <<HttpHeader_CONTENT_DISPOSITION, T_attachment>>}
\* ResponseBuilder::header, called for each of the lines
CallerHeaders ==
  {EmptyMap}
    \cup {MapInsert(EmptyMap, h[1], h[2]) : h \in CallerHeaderLines}
    \cup {MapInsert(MapInsert(EmptyMap, h[1], h[2]), g[1], g[2]) :
            h \in CallerHeaderLines, g \in CallerHeaderLines}

Responses ==
  {Response(status, headers, body) :
     status \in {"Ok", "SeeOther"}, headers \in CallerHeaders, body \in ResponseBodies}

InitBytes ==
  /\ fs \in {BytesFiles(content) : content \in FileContents}
  /\ last = NoCall
  /\ uploaded = {}
  /\ InitPool

\* a call of Response::to_bytes, the header map handing out its keys in some
\* order
ToBytes ==
  /\ last = NoCall
  /\ \E response \in Responses :
       \E order \in KeyOrders(written_headers(fs, response)) :
         last' = [op |-> "to_bytes", arg |-> response, order |-> order,
                  res |-> to_bytes(fs, response, order)]
  /\ UNCHANGED <<fs, uploaded, poolVars>>

NextBytes == ToBytes \/ Return

SpecBytes == InitBytes /\ [][NextBytes]_vars

(***************************************************************************)
(* Properties of the serializer (SpecBytes).                               *)
(***************************************************************************)
\* the bytes before and after the first blank line
HeadOf(bytes) == SplitOnce(bytes, T_blank_line).v[1]
BodyOf(bytes) == SplitOnce(bytes, T_blank_line).v[2]

\* the lines of the head of a response after its status line, each without
\* its line ending
HeaderLinesOf(lines) == {SubSeq(lines[i], 1, Len(lines[i]) - 1) : i \in 2..Len(lines)}
HeaderLines(bytes) == HeaderLinesOf(Split(HeadOf(bytes) \o <<"\r">>, "\n"))

\* the values the header lines give to a header
HeaderValuesIn(lines, name) ==
  {Drop(l, Len(name) + 2) : l \in {k \in lines : StartsWith(k, name \o T_colon_sp)}}

\* the values the written bytes give to a header
HeaderValues(bytes, name) == HeaderValuesIn(HeaderLines(bytes), name)

\* the bytes held by uploads/a.txt
ATxtContent == fs[<<T_srv, T_uploads, T_a_txt>>].content

\* C11: a response whose body is the file a.txt, by whatever path it is
\* named, is serialized to bytes whose part after the first blank line is
\* exactly the content of the file, with one Content-Length header that
\* reads as the length of the content
C11_FileRoundTrip ==
  (last.op = "to_bytes" /\ last.arg.body \in {BodyFile(p) : p \in ATxtPaths}) =>
    /\ last.res.ok
    /\ Contains(last.res.v, T_blank_line)
    /\ BodyOf(last.res.v) = ATxtContent
    /\ {ParseUsize(v) : v \in HeaderValues(last.res.v, HttpHeader_CONTENT_LENGTH)}
         = {Some(Vec_len(ATxtContent))}

\* a.txt holding "hi", a blank line and "x" has been serialized
C11_Witness ==
  /\ last.op = "to_bytes"
  /\ last.arg.body = BodyFile(T_uploads_slash \o T_a_txt)
  /\ ATxtContent = T_hi \o T_blank_line \o <<"x">>
  /\ last.res.ok
  /\ BodyOf(last.res.v) = ATxtContent

\* the name of the file a body is read into
BodyFileName(body) ==
  IF body.kind = "File" THEN FileName(body.v).v ELSE T_response_html

\* whether the serializer computes the header of that name for the body
ComputedFor(body, name, with_disposition) ==
  \/ name = HttpHeader_CONTENT_LENGTH
  \/ body.kind # "Empty" /\ name = HttpHeader_CONTENT_TYPE
  \/ /\ with_disposition
     /\ body.kind # "Empty"
     /\ name = HttpHeader_CONTENT_DISPOSITION
     /\ ~StartsWith(get_content_type(BodyFileName(body)), T_text_html)

\* the headers of the written bytes: Content-Length reads as the number of
\* bytes after the blank line, Content-Type with a body is the type of the
\* name of its file, and every header of the caller that is not computed is
\* written with the value of the caller
HeadersWrittenIn(response, lines, body, with_disposition) ==
  /\ {ParseUsize(v) : v \in HeaderValuesIn(lines, HttpHeader_CONTENT_LENGTH)}
       = {Some(Vec_len(body))}
  /\ response.body.kind = "Empty" => body = <<>>
  /\ response.body.kind # "Empty" =>
       HeaderValuesIn(lines, HttpHeader_CONTENT_TYPE)
         = {get_content_type(BodyFileName(response.body))}
  /\ \A name \in DOMAIN response.headers :
       ~ComputedFor(response.body, name, with_disposition) =>
         HeaderValuesIn(lines, name) = {response.headers[name]}
HeadersWritten(response, bytes, with_disposition) ==
  HeadersWrittenIn(response, HeaderLines(bytes), BodyOf(bytes), with_disposition)

\* C19 as stated: in the bytes of to_bytes, Content-Length is the number of
\* body bytes (0 for an Empty body), Content-Type with a body is derived from
\* the name of its file, whatever the caller supplied under these two names,
\* and every other header of the caller is written unchanged
C19_OtherHeadersUnchanged ==
  (last.op = "to_bytes" /\ last.res.ok) => HeadersWritten(last.arg, last.res.v, FALSE)

\* C19, amended: as stated, but for a body that is not HTML the header
\* Content-Disposition is computed too (inline; filename="<name>") and
\* replaces a Content-Disposition of the caller; every header of the caller
\* that is not computed is written unchanged
C19_ComputedHeadersOverride ==
  (last.op = "to_bytes" /\ last.res.ok) =>
    /\ HeadersWritten(last.arg, last.res.v, TRUE)
    /\ ComputedFor(last.arg.body, HttpHeader_CONTENT_DISPOSITION, TRUE) =>
         HeaderValues(last.res.v, HttpHeader_CONTENT_DISPOSITION)
           = {<<"i","n","l","i","n","e",";"," ","f","i","l","e","n","a","m","e","=","\"">>
                \o BodyFileName(last.arg.body) \o <<"\"">>}

\* a 303 response with the file a.txt, to which the caller gave the headers
\* Content-Length: 99 and Location: /, has been serialized
C19_Witness ==
  /\ last.op = "to_bytes"
  /\ last.arg.body = BodyFile(T_uploads_slash \o T_a_txt)
  /\ DOMAIN last.arg.headers = {HttpHeader_CONTENT_LENGTH, HttpHeader_LOCATION}
  /\ last.res.ok
  /\ HeaderValues(last.res.v, HttpHeader_LOCATION) = {T_slash}
  /\ Len(ATxtContent) = 2

(***************************************************************************)
(* http.rs: the body extracted from a stream under headers of every kind,  *)
(* and requests parsed from streams that end or fail part way.             *)
(***************************************************************************)
T_hello == <<"h","e","l","l","o">>
T_form_type == T_multipart \o <<";"," ">> \o T_boundary_eq \o T_B

\* 50 MiB, the greatest length a form may declare
FiftyMiB == 50 * 1024 * 1024

\* the values a client may give to Content-Length, none among them
LengthValues ==
  {None, Some(<<"0">>), Some(<<"5">>), Some(<<"+","5">>), Some(<<"a","b","c">>),
   Some(<<"-","1">>), Some(<<>>), Some(NatToText(FiftyMiB)),
   Some(NatToText(FiftyMiB + 1)), Some(NatToText(Len(FormBody(T_note_txt, T_hi))))}

\* the values a client may give to Content-Type, none among them
TypeValues ==
  {None, Some(T_form_type), Some(T_multipart), Some(<<"t","e","x","t","/","p","l","a","i","n">>),
   Some(<<>>)}

\* the header map of a request with these two headers and a Host header
BodyHeadersOf(length, type) ==
  (IF length.some THEN MapInsert(EmptyMap, HttpHeader_CONTENT_LENGTH, length.v) ELSE EmptyMap)
    @@ (IF type.some THEN MapInsert(EmptyMap, HttpHeader_CONTENT_TYPE, type.v) ELSE EmptyMap)
    @@ MapInsert(EmptyMap, <<"H","o","s","t">>, <<"x">>)

\* what the stream holds after the headers
BodyStreams == {FormBody(T_note_txt, T_hi), T_hello, <<>>}

\* the requests cut short: a form upload and a plain GET
WholeRequests ==
  {RequestText([NoForm(RequestLine(T_POST, T_upload_path)) EXCEPT
                  !.form = TRUE, !.filename = T_note_txt, !.content = T_hi]),
   RequestText(NoForm(RequestLine(T_GET, T_slash)))}

InitParse == InitFiles

\* a call of Request::extract_body
ExtractBody ==
  /\ last = NoCall
  /\ \E length \in LengthValues, type \in TypeValues, data \in BodyStreams, fail \in BOOLEAN :
       \E headers \in {BodyHeadersOf(length, type)}, stream \in {Stream(data, fail)} :
         last' = [op |-> "extract_body", arg |-> [headers |-> headers, stream |-> stream],
                  length |-> length, type |-> type,
                  res |-> extract_body(stream, headers),
                  rest |-> extract_body_rest(stream, headers)]
  /\ UNCHANGED <<fs, uploaded, poolVars>>

\* a call of Request::try_new on a connection that has delivered the first
\* bytes of a request when it ends, or when reading from it fails
TryNew ==
  /\ last = NoCall
  /\ \E whole \in WholeRequests, fail \in BOOLEAN :
       \E cut \in 0..Len(whole) :
         last' = [op |-> "try_new",
                  arg |-> [whole |-> whole, cut |-> cut, fail |-> fail],
                  res |-> try_new(Stream(SubSeq(whole, 1, cut), fail))]
  /\ UNCHANGED <<fs, uploaded, poolVars>>

T_a_semi_b_txt == <<"a",";","b",".","t","x","t">>
T_a_eq_b_txt == <<"a","=","b",".","t","x","t">>

\* the file names and the file data of the forms
FormNames ==
  {T_note_txt, T_a_semi_b_txt, T_a_eq_b_txt,
   <<"a",";","b","=","c",".","t","x","t">>, <<"\"","q",".","t","x","t">>}
FormData == {T_hi, <<" ">> \o T_hi \o <<"\n">>, <<"a","\n","b">>, <<>>, <<"h", ByteFF>>}

\* the forms a client sends: with or without the opening boundary, the
\* Content-Disposition line, the Content-Type line, the blank line before
\* the data, and the closing boundary
FormShapes ==
  [open : BOOLEAN, disposition : BOOLEAN, type : BOOLEAN, blank : BOOLEAN, close : BOOLEAN,
   filename : FormNames, data : FormData, content_type : {T_form_type, T_multipart}]

\* the body of a form
FormText(p) ==
  (IF p.open THEN T_dashes \o T_B \o T_CRLF ELSE <<>>)
    \o (IF p.disposition THEN T_disp_head \o p.filename \o <<"\"">> \o T_CRLF ELSE <<>>)
    \o (IF p.type THEN T_part_type \o T_CRLF ELSE <<>>)
    \o (IF p.blank THEN T_CRLF ELSE <<>>)
    \o p.data \o T_CRLF
    \o T_dashes \o T_B \o (IF p.close THEN T_dashes ELSE <<>>) \o T_CRLF

\* a call of MultiPartFormExtractor::extract on a stream that holds a form
\* of exactly the declared length
ExtractForm ==
  /\ last = NoCall
  /\ \E p \in FormShapes :
       last' = [op |-> "extract", arg |-> p,
                res |-> MultiPartFormExtractor_extract(Stream(FormText(p), FALSE),
                                                       p.content_type, Len(FormText(p)))]
  /\ UNCHANGED <<fs, uploaded, poolVars>>

NextParse == ExtractBody \/ TryNew \/ ExtractForm \/ Return

SpecParse == InitParse /\ [][NextParse]_vars

(***************************************************************************)
(* Properties of the body extraction and of failing reads (SpecParse).     *)
(***************************************************************************)
\* C12: when the declared Content-Length of a multipart/form-data request is
\* above 50 MiB the extraction fails with Invalid and has read nothing from
\* the stream; a declared length of exactly 50 MiB passes this test, and the
\* body is read from the stream
C12_LengthLimit ==
  (last.op = "extract_body" /\ last.type \in {Some(T_form_type), Some(T_multipart)}) =>
    /\ last.length = Some(NatToText(FiftyMiB + 1)) =>
         /\ last.res = Err("Invalid")
         /\ last.rest = last.arg.stream
    /\ (/\ last.length = Some(NatToText(FiftyMiB))
        /\ last.type = Some(T_form_type)
        /\ last.arg.stream.data # <<>>) =>
         last.rest # last.arg.stream

\* a length of 50 MiB and one of 50 MiB + 1 have been declared for a form
\* waiting in the stream
C12_Witness ==
  /\ last.op = "extract_body"
  /\ last.type = Some(T_form_type)
  /\ last.length = Some(NatToText(FiftyMiB + 1))
  /\ last.arg.stream.data = FormBody(T_note_txt, T_hi)
  /\ ~last.res.ok

\* whether the headers hold a Content-Length that reads as a number above 0
HasPositiveLength(headers) ==
  /\ HttpHeader_CONTENT_LENGTH \in DOMAIN headers
  /\ ParseUsize(headers[HttpHeader_CONTENT_LENGTH]).some
  /\ ParseUsize(headers[HttpHeader_CONTENT_LENGTH]).v > 0

\* C15: for headers that do not hold both a Content-Type and a Content-Length
\* above 0, extract_body returns Empty and no error, whatever the values of
\* the headers that are there
C15_NoBodyIsEmpty ==
  (/\ last.op = "extract_body"
   /\ ~(HttpHeader_CONTENT_TYPE \in DOMAIN last.arg.headers
        /\ HasPositiveLength(last.arg.headers))) =>
    last.res = Ok(RequestBodyEmpty)

\* C16: when reading from the stream fails before the whole request has been
\* read, be it in the request line, in a header line or in the bytes of the
\* multipart body, try_new fails with IO
C16_ReadFailureIsIO ==
  (last.op = "try_new" /\ last.arg.fail /\ last.arg.cut < Len(last.arg.whole)) =>
    last.res = Err("IO")

(***************************************************************************)
(* handlers.rs: requests of every method and path routed, and errors of    *)
(* every kind turned into their page.                                      *)
(***************************************************************************)
HttpMethods ==
  {"Get", "Post", "Put", "Patch", "Delete", "Head", "Options", "Trace", "Connect"}

AppErrorKinds == {"IO", "Invalid", "NotFound", "NotPermitted", "Unknown"}

\* the paths of the requests routed
RoutePaths ==
  {T_slash, T_upload_path, T_slash \o T_uploads_slash \o T_a_txt,
   T_slash \o T_uploads_slash \o T_sub \o T_slash \o T_b_png,
   T_slash \o T_uploads_slash \o T_x_txt,
   T_slash \o T_uploads, T_slash \o T_uploads \o T_x_txt,
   T_nope, T_upload_path \o T_slash, <<>>}

\* the headers and the bodies of the requests routed
RouteHeaders == {EmptyMap, BodyHeadersOf(Some(<<"5">>), Some(T_form_type))}
RouteBodies ==
  {RequestBodyEmpty, RequestBodyMultipart(BufferedFile(T_note_txt, T_hi)),
   RequestBodyMultipart(BufferedFile(T_x_exe, T_hi))}

RouteRequests ==
  [path : RoutePaths, method : HttpMethods, http_version : {T_HTTP11},
   headers : RouteHeaders, body : RouteBodies]

InitRoute == InitFiles

\* a call of Router::route_request
RouteRequest ==
  /\ last = NoCall
  /\ \E request \in RouteRequests, timestamp \in LogTimes :
       \E r \in route_request(fs, request, timestamp) :
         /\ r.fs # fs => Cardinality(uploaded) < MaxUploads
         /\ fs' = r.fs
         /\ last' = [op |-> "route_request", arg |-> request,
                     handler |-> route_request_handler(request), res |-> r.res]
         /\ uploaded' =
              IF r.fs # fs
              THEN uploaded \cup
                     {[name |-> request.body.file.name,
                       loc |-> CreateLocation(fs, PathJoin(T_uploads,
                                                request.body.file.name)).v]}
              ELSE uploaded
  /\ UNCHANGED poolVars

\* a call of ErrorHandler::map_error_to_handler
MapError ==
  /\ last = NoCall
  /\ \E kind \in AppErrorKinds, timestamp \in LogTimes :
       \E res \in map_error_to_handler(Err(kind), timestamp) :
         last' = [op |-> "map_error_to_handler", arg |-> Err(kind),
                  timestamp |-> timestamp, res |-> res]
  /\ UNCHANGED <<fs, uploaded, poolVars>>

NextRoute == RouteRequest \/ MapError \/ Return

SpecRoute == InitRoute /\ [][NextRoute]_vars

(***************************************************************************)
(* Properties of the router and of the error pages (SpecRoute).            *)
(***************************************************************************)
\* the handler the routing table names for a method and a path
RoutingTable(method, path) ==
  IF method = "Get" /\ path = T_slash THEN "list_files"
  ELSE IF method = "Get" /\ StartsWith(path, T_slash \o T_uploads_slash) THEN "view_file"
  ELSE IF method = "Get" /\ path = T_upload_path THEN "get_file_upload_view"
  ELSE IF method = "Post" /\ path = T_upload_path THEN "upload_file"
  ELSE "handle_invalid_page_request"

\* C17: the handler a request is routed to is the one the table names for its
\* method and path, whatever its headers and body: list for GET /, view for
\* GET of a path under /uploads/, the form for GET /upload, the upload for
\* POST /upload; every other request gets the 404 page-not-found response and
\* no error
C17_RoutingTable ==
  last.op = "route_request" =>
    /\ last.handler = RoutingTable(last.arg.method, last.arg.path)
    /\ RoutingTable(last.arg.method, last.arg.path) = "handle_invalid_page_request" =>
         /\ last.res.ok
         /\ get_status_code(last.res.v.status) = 404
         /\ last.res.v.body = BodyText(Templates_PAGE_NOT_FOUND)

\* C18: map_error_to_handler gives every kind of error, whenever it is
\* called, a response with a text body: status 500 for IO and Unknown, 404
\* for NotFound, 403 for NotPermitted, 400 or 404 for Invalid, and so never a
\* 2xx or 3xx status
C18_ErrorPages ==
  last.op = "map_error_to_handler" =>
    /\ last.res.ok
    /\ last.res.v.body.kind = "Text"
    /\ last.arg.kind \in {"IO", "Unknown"} => get_status_code(last.res.v.status) = 500
    /\ last.arg.kind = "NotFound" => get_status_code(last.res.v.status) = 404
    /\ last.arg.kind = "NotPermitted" => get_status_code(last.res.v.status) = 403
    /\ last.arg.kind = "Invalid" => get_status_code(last.res.v.status) \in {400, 404}
    /\ get_status_code(last.res.v.status) >= 400

\* C13: a job that ends in failure, returning an error or panicking, leaves
\* the worker that ran it in its loop: the job returns to the worker, which
\* goes back to take the lock for the next job
C13_FailedJobKeepsWorker ==
  [][\A w \in Workers :
       /\ (workers[w].pc = "run" /\ workers'[w].pc # "run" /\ last'.res # "Ok") =>
            workers'[w].pc = "return"
       /\ (workers[w].pc = "return" /\ workers'[w].pc # "return") =>
            workers'[w].pc = "lock"]_vars

\* C14: every call of execute by the accept loop ends as a send that puts the
\* job at the end of the channel, whatever the workers are doing and however
\* many jobs wait, and leaves the loop accepting
C14_ExecuteEnqueues ==
  [][Len(conns') = Len(conns) + 1 =>
       /\ queue' = Append(queue, Len(conns'))
       /\ listener' = "accepting"]_vars

\* the workers that hold the mutex of the receiver: from the lock taken to the
\* end of the statement that receives
LockHolders == {w \in Workers : workers[w].pc \in {"recv", "unlock"}}

\* C20: at most one worker holds the lock of the queue, and it is the one
\* waiting in recv; a worker that runs a job does not hold the lock; and while
\* the server runs, a worker at the start of its loop can take a free lock and
\* the holder of the lock can receive a waiting job, whatever jobs the other
\* workers are running
C20_WorkerLoop ==
  /\ Cardinality(LockHolders) <= 1
  /\ LockHolders = (IF lock = 0 THEN {} ELSE {lock})
  /\ \A w \in Workers : workers[w].pc \in {"run", "return", "unwind"} => lock # w
  /\ listener = "accepting" =>
       \A w \in Workers :
         /\ (workers[w].pc = "lock" /\ lock = 0) => ENABLED Lock(w)
         /\ (workers[w].pc = "recv" /\ queue # <<>>) => ENABLED Recv(w)
         /\ workers[w].pc = "unlock" => ENABLED Unlock(w)

\* two workers run a job each at the same time while a third job waits on the
\* channel and the lock is free
C20_Witness ==
  /\ \A w \in {1, 2} : workers[w].pc = "run"
  /\ workers[1].job # workers[2].job
  /\ queue # <<>>
  /\ lock = 0

\* C21: jobs leave the channel in the order in which execute sent them: when
\* a job has been received, every job sent before it has been received too,
\* and the jobs waiting on the channel are in the order of their sending
C21_ReceivedInOrder ==
  /\ \A a, b \in 1..Len(conns) :
       (a < b /\ conns[a].sent = 1 /\ conns[b].received # {}) => conns[a].received # {}
  /\ \A i, j \in 1..Len(queue) : i < j => queue[i] < queue[j]

\* the second job has run to its end while the first job, received before it,
\* has not: the jobs complete in another order than they were sent
C21_Witness ==
  /\ Len(conns) >= 2
  /\ conns[1].received # {} /\ conns[1].executed = 0
  /\ conns[2].executed = 1

\* Worker::new, the closure of thread::spawn: the steps of the thread of worker w
Worker(w) == Lock(w) \/ Recv(w) \/ Unlock(w) \/ Run(w) \/ Finish(w) \/ Exit(w)

\* the server is started in a directory without its templates, where a job
\* returns (the request is not parsed) or does not return (no page can be
\* serialized)
InitPoolFair == InitPoolSpec /\ fs = StrayFiles

\* the pool under a scheduler that lets no worker thread wait for ever while
\* it can take a step
SpecPoolFair ==
  InitPoolFair /\ [][NextPool]_vars /\ \A w \in Workers : WF_vars(Worker(w))

\* every job that started has returned: no job has panicked, which ends the
\* thread of its worker
EveryJobReturns == \A w \in Workers : workers[w].pc \notin {"unwind", "exit", "dead"}

JobSent(c) == Len(conns) >= c /\ conns[c].sent = 1

JobExecuted(c) == Len(conns) >= c /\ conns[c].received # {} /\ conns[c].executed >= 1

\* C22: with fair worker threads, every job sent by execute is in the end
\* received and executed by a worker, unless a job that started did not
\* return (the thread of a worker has ended, and stays ended); no job waits
\* on the channel for ever. A job that is sent stays sent and one that is
\* executed stays executed, so that "sent leads to executed" is "again and
\* again, the job is not sent or is executed"
C22_EveryJobExecuted ==
  []<>(\A c \in 1..MaxConns : JobSent(c) => JobExecuted(c) \/ ~EveryJobReturns)

\* the last job waited on the channel and has been executed, and every
\* worker thread is still running
C22_Witness ==
  /\ Len(conns) = MaxConns
  /\ JobExecuted(MaxConns)
  /\ EveryJobReturns

\* the workers whose thread is running
AliveWorkers == {w \in Workers : workers[w].pc # "dead"}

\* C24: the size of the pool never changes: whatever the connections send
\* and however their jobs end, every worker started by ThreadPool::new is
\* alive, taking jobs from the channel or running one
C24_PoolSizeInvariant == Cardinality(AliveWorkers) = PoolSize

(***************************************************************************)
(* Uploads that run at the same time: every worker runs one post-upload    *)
(* job; File::create and write_all of save_file are two steps of the       *)
(* operating system, and the steps of the workers interleave.              *)
(***************************************************************************)

\* the file contents that are uploaded
SaveContents == SeqsUpTo({"a", "b"}, MaxBytes) \ {<<>>}

\* the files that are uploaded
SaveFiles == {BufferedFile(name, content) : name \in {T_x_txt, T_a_txt}, content \in SaveContents}

\* a worker about to run upload_file on a file
SaveJob(file) == [pc |-> "create", file |-> file, loc |-> <<>>, res |-> Ok(<<>>)]

\* File::create on a location: the file is there and empty
File_create(f, loc) == WriteFile(f, loc, <<>>)

\* Write::write_all through a handle that File::create has just opened: the
\* bytes go to the start of the file, over what is there, and what the file
\* holds beyond them stays (write_all is taken to finish in one write call)
write_all(content, data) == data \o Drop(content, Len(data))

\* the result of upload_file when it ends before save_file, ready the
\* location File::create opens
upload_file_before_save(valid, resolved_path, loc) ==
  IF ~valid.ok THEN valid
  ELSE IF ~PathStartsWith(resolved_path, T_uploads_slash) THEN Err("NotPermitted")
  ELSE IF ~loc.ok THEN Err("IO")
  ELSE Ok(<<>>)

\* every worker has a post-upload job to run
InitSave ==
  /\ fs = FS0
  /\ last = NoCall
  /\ uploaded = {}
  /\ queue = <<>>
  /\ lock = 0
  /\ conns = <<>>
  /\ listener = "accepting"
  /\ workers \in [Workers -> {SaveJob(file) : file \in SaveFiles}]

\* upload_file up to File::create of save_file: the name is validated and
\* the file created or truncated
SaveCreate(w) ==
  /\ workers[w].pc = "create"
  /\ \E loc \in {CreateLocation(fs, PathJoin(T_uploads, workers[w].file.name))} :
       \E r \in {upload_file_before_save(
                   validate_filename(workers[w].file.name),
                   resolve_traversals(PathJoin(T_uploads, workers[w].file.name)), loc)} :
         IF r.ok
         THEN /\ fs' = File_create(fs, loc.v)
              /\ workers' = [workers EXCEPT ![w].pc = "write", ![w].loc = loc.v]
              /\ last' = last
         ELSE /\ fs' = fs
              /\ workers' = [workers EXCEPT ![w].pc = "done", ![w].res = r]
              /\ last' = [op |-> "upload_file", arg |-> workers[w].file, res |-> r]
  /\ UNCHANGED <<uploaded, queue, lock, conns, listener>>

\* write_all of save_file and the end of upload_file: the content is written
\* through the handle and the redirection returned
SaveWrite(w) ==
  /\ workers[w].pc = "write"
  /\ fs' = WriteFile(fs, workers[w].loc,
                     write_all(fs[workers[w].loc].content, workers[w].file.content))
  /\ \E saved \in {upload_file_saved([res |-> Ok(<<>>), fs |-> fs'])} :
       /\ workers' = [workers EXCEPT ![w].pc = "done", ![w].res = saved.res]
       /\ last' = [op |-> "upload_file", arg |-> workers[w].file, res |-> saved.res]
  /\ UNCHANGED <<uploaded, queue, lock, conns, listener>>

NextSave ==
  \/ \E w \in Workers : SaveCreate(w)
  \/ \E w \in Workers : SaveWrite(w)

SpecSave == InitSave /\ [][NextSave]_vars

\* the workers whose upload of the name has completed with the redirection
SavedBy(name) ==
  {w \in Workers : workers[w].pc = "done" /\ workers[w].res.ok /\ workers[w].file.name = name}

\* C23: when the uploads of one file name by two workers have both
\* completed, the file holds the whole content of one of the two uploads,
\* never bytes of both
C23_LastWriterWins ==
  \A name \in {T_x_txt, T_a_txt} :
    (\A w \in Workers : workers[w].pc = "done") /\ Cardinality(SavedBy(name)) >= 2
      => \E w \in SavedBy(name) :
           ReadFile(fs, T_uploads_slash \o name) = Ok(workers[w].file.content)

\* the form has every piece the decoder asks for: the boundary parameter, both
\* boundaries, the two lines, and file data that is UTF-8 and not blank
FormComplete(p) ==
  /\ p.content_type = T_form_type
  /\ p.open /\ p.close /\ p.disposition /\ p.type
  /\ String_from_utf8(p.data).ok
  /\ Trim(p.data) # <<>>

\* blank line the first line of the data and the lines after it
DataAfterMissingType(p) ==
  IF p.blank THEN Some(Trim(p.data))
  ELSE IF Contains(Trim(p.data), <<"\n">>) THEN Some(Trim(SplitOnce(Trim(p.data), <<"\n">>).v[2]))
  ELSE None

\* the text after the last ';' of a file name, the whole name without one
AfterLastSemi(F) == IF Contains(F, <<";">>) THEN RSplitOnce(F, <<";">>).v[2] ELSE F

\* the name the decoder reads for the file name F of a disposition line
\* ending in ; filename="F": F without the quotes it begins and ends with;
\* when F holds a ';', the text after the first '=' that follows its last
\* ';', without white space before it and quotes around it, and none when
\* no '=' follows
NameRead(F) ==
  IF ~Contains(F, <<";">>) THEN Some(TrimMatches(F, "\""))
  ELSE IF ~Contains(AfterLastSemi(F), <<"=">>) THEN None
  ELSE Some(TrimMatches(TrimStart(SplitOnce(AfterLastSemi(F), <<"=">>).v[2]) \o <<"\"">>,
                        "\""))

\* the Content-Disposition the serializer computes for a file name
T_inline_filename == <<"i","n","l","i","n","e",";"," ","f","i","l","e","n","a","m","e","=","\"">>
InlineDisposition(name) == T_inline_filename \o name \o <<"\"">>

T_octet_stream == <<"a","p","p","l","i","c","a","t","i","o","n","/","o","c","t","e","t","-","s","t","r","e","a","m">>

\* the content types of the fixed table for the bodies that are serialized:
\* the text body and the template are HTML, a.txt is text, b.png an image and
\* passwd has no extension
TableContentType(body) ==
  IF body.kind = "Text" \/ EndsWith(body.v, <<".">> \o <<"h","t","m","l">>)
    THEN T_text_html \o <<";"," ","c","h","a","r","s","e","t","=","U","T","F","-","8">>
  ELSE IF EndsWith(body.v, <<".">> \o T_txt) THEN <<"t","e","x","t","/","p","l","a","i","n">>
  ELSE IF EndsWith(body.v, <<".","p","n","g">>) THEN <<"i","m","a","g","e","/","p","n","g">>
  ELSE T_octet_stream

\* the headers Content-Type and Content-Disposition among the written lines
DispositionWrittenIn(response, lines) ==
  LET body == response.body
      inline == {v \in HeaderValuesIn(lines, HttpHeader_CONTENT_DISPOSITION) :
                   StartsWith(v, T_inline_filename)}
      caller(name) == IF name \in DOMAIN response.headers THEN {response.headers[name]} ELSE {}
  IN  /\ (inline # {}) <=> (body.kind # "Empty" /\ ~StartsWith(TableContentType(body), T_text_html))
      /\ body.kind # "Empty" =>
           HeaderValuesIn(lines, HttpHeader_CONTENT_TYPE) = {TableContentType(body)}
      /\ inline # {} =>
           HeaderValuesIn(lines, HttpHeader_CONTENT_DISPOSITION)
             = {InlineDisposition(BodyFileName(body))}
      /\ body.kind = "Empty" =>
           /\ HeaderValuesIn(lines, HttpHeader_CONTENT_TYPE) = caller(HttpHeader_CONTENT_TYPE)
           /\ HeaderValuesIn(lines, HttpHeader_CONTENT_DISPOSITION)
                = caller(HttpHeader_CONTENT_DISPOSITION)

\* C26: the bytes of a response have a Content-Disposition header of the
\* form inline; filename="<name>" exactly when the response has a body whose
\* content type is not text/html: a text body and an .html file get
\* text/html and no such header, every other file gets the content type of
\* its extension (application/octet-stream without a known one) and the
\* header with its file name, and an Empty body gets no Content-Type and no
\* Content-Disposition but those of the caller
C26_DispositionIffNotHtml ==
  (last.op = "to_bytes" /\ last.res.ok) =>
    DispositionWrittenIn(last.arg, HeaderLines(last.res.v))

\* the file passwd, which has no extension, has been serialized for a caller
\* that gave the response a Content-Disposition of its own
C26_Witness ==
  /\ last.op = "to_bytes"
  /\ last.res.ok
  /\ last.arg.body = BodyFile(T_slash \o T_etc \o T_slash \o T_passwd)
  /\ HttpHeader_CONTENT_DISPOSITION \in DOMAIN last.arg.headers
  /\ HeaderValues(last.res.v, HttpHeader_CONTENT_TYPE) = {T_octet_stream}
  /\ HeaderValues(last.res.v, HttpHeader_CONTENT_DISPOSITION) = {InlineDisposition(T_passwd)}

\* the step is a call of post-upload on a request whose body is Empty
UploadOfEmptyBody(l) ==
  /\ l.op = "route_request"
  /\ l.handler = "upload_file"
  /\ l.arg.body = RequestBodyEmpty

\* C27: post-upload on a request whose body is not Multipart fails with
\* Invalid, leaves every file as it was, and gives no 303 response: neither
\* as its result nor as the page its error is turned into
C27_EmptyBodyInvalid ==
  [][UploadOfEmptyBody(last') =>
       /\ last'.res = Err("Invalid")
       /\ fs' = fs
       /\ uploaded' = uploaded
       /\ \A timestamp \in LogTimes :
            \A page \in map_error_to_handler(last'.res, timestamp) :
              page.ok => get_status_code(page.v.status) # 303]_vars

\* POST /upload without headers and with an Empty body has been routed to
\* post-upload and has failed
C27_Witness ==
  /\ UploadOfEmptyBody(last)
  /\ last.arg.headers = EmptyMap
  /\ ~last.res.ok

\* C28: the page an error of kind Invalid is turned into, the response of
\* handle_bad_request, has the status code 400
C28_BadRequestIs400 ==
  (last.op = "map_error_to_handler" /\ last.arg.kind = "Invalid" /\ last.res.ok) =>
    /\ last.res.v = handle_bad_request
    /\ get_status_code(last.res.v.status) = 400

(***************************************************************************)
(* An upload followed by a view of the uploaded file: the client sends     *)
(* POST /upload with a form and then GET /uploads/<name> for its file name.*)
(***************************************************************************)

\* the names given to the uploaded file: a new name, the name of a file of
\* uploads, the names of the links of uploads that stay inside and that
\* leave it, the name of the link to the file whose name is not UTF-8, a
\* name with a space in it, and a name without an allowed extension
TripNames ==
  {T_note_txt, T_a_txt, T_in_txt, T_out_txt, T_l_txt, <<"m","y"," ","f",".","t","x","t">>,
   T_x_exe}

\* the contents of the uploaded file
TripContents == SeqsUpTo({"h", "\n"}, MaxBytes)

\* the text of the upload of a file, its headers named as the server names them
TripUploadText(filename, content) ==
  RequestText([NoForm(RequestLine(T_POST, T_upload_path)) EXCEPT
                 !.form = TRUE, !.filename = filename, !.content = content])

\* the text of the request for an uploaded file
TripViewText(filename) ==
  RequestText(NoForm(RequestLine(T_GET, T_slash \o T_uploads_slash \o filename)))

InitTrip == InitView

\* POST /upload of a file, handled from its text to the response
TripUpload ==
  /\ last = NoCall
  /\ \E filename \in TripNames, content \in TripContents, timestamp \in LogTimes :
       \E r \in respond(fs, TripUploadText(filename, content), timestamp) :
         /\ (r.res.ok /\ r.res.v.status = "SeeOther") => Cardinality(uploaded) < MaxUploads
         /\ last' = IF r.returns
                    THEN [op |-> "upload",
                          arg |-> [filename |-> filename, content |-> content],
                          res |-> r.res, response |-> r.response]
                    ELSE [op |-> "unwound",
                          arg |-> [filename |-> filename, content |-> content],
                          res |-> r.response]
         /\ fs' = r.fs
         /\ uploaded' =
              IF r.res.ok /\ r.res.v.status = "SeeOther"
              THEN uploaded \cup
                     {[name |-> filename,
                       loc |-> CreateLocation(fs, PathJoin(T_uploads, filename)).v]}
              ELSE uploaded
  /\ UNCHANGED poolVars

\* GET /uploads/<name> for the file name of the upload just made, handled
\* from its text to the bytes of the response
TripView ==
  /\ last.op = "upload"
  /\ \E timestamp \in LogTimes :
       \E r \in respond(fs, TripViewText(last.arg.filename), timestamp) :
         IF r.returns
         THEN \E order \in KeyOrders(written_headers(r.fs, r.response)) :
                last' = [op |-> "view", arg |-> last.arg,
                         uploaded |-> (last.res.ok /\ last.res.v.status = "SeeOther"),
                         res |-> r.res, response |-> r.response,
                         bytes |-> to_bytes(r.fs, r.response, order).v]
         ELSE last' = [op |-> "unwound", arg |-> last.arg, res |-> r.response]
  /\ UNCHANGED <<fs, uploaded, poolVars>>

NextTrip == TripUpload \/ TripView \/ Return

SpecTrip == InitTrip /\ [][NextTrip]_vars

\* C29 as stated: after a successful upload of a file, the view of its name
\* returns 200 with a body that is exactly the uploaded content
C29_UploadViewRoundTrip ==
  (last.op = "view" /\ last.uploaded) =>
    /\ get_status_code(last.response.status) = 200
    /\ BodyOf(last.bytes) = last.arg.content

(***************************************************************************)
(* get_current_military_time called at every time of a few years.        *)
(***************************************************************************)
\* the days since the epoch of the timestamps: up to the year 1980, over the
\* leap years 1972 and 1976
MaxDay == 3700

\* the seconds of the day of the timestamps
DaySeconds == {0, 3661, 86399}

InitTime == InitFiles

\* a call of get_current_military_time, at some time
MilitaryTime ==
  /\ last = NoCall
  /\ \E day \in 0..MaxDay, seconds \in DaySeconds :
       \E res \in get_current_military_time(day * 86400 + seconds) :
         last' = [op |-> "get_current_military_time",
                  arg |-> [timestamp |-> day * 86400 + seconds], res |-> res]
  /\ UNCHANGED <<fs, uploaded, poolVars>>

NextTime == MilitaryTime \/ Return

SpecTime == InitTime /\ [][NextTime]_vars

RECURSIVE GregorianYear(_, _)
\* the year of the Gregorian calendar a day since the epoch falls in, and the
\* days of that year before it
GregorianYear(days, year) ==
  IF days >= days_in_year(year) THEN GregorianYear(days - days_in_year(year), year + 1)
  ELSE [year |-> year, days |-> days]

RECURSIVE GregorianMonth(_, _, _)
\* the month a day of a year falls in, and the days of that month before it
GregorianMonth(days, year, month) ==
  IF days >= days_in_months(year)[month]
  THEN GregorianMonth(days - days_in_months(year)[month], year, month + 1)
  ELSE [month |-> month, days |-> days]

\* the date and time of a timestamp in the Gregorian calendar
GregorianTime(y, timestamp) ==
  format_military_time(y.year, GregorianMonth(y.days, y.year, 1).month,
                       GregorianMonth(y.days, y.year, 1).days + 1,
                       (timestamp % 86400) \div 3600,
                       ((timestamp % 86400) % 3600) \div 60,
                       (timestamp % 86400) % 60)

\* C30: for every timestamp, the year loop of get_current_military_time
\* subtracts no more days than are left, and the text returned is the date of
\* the timestamp in the Gregorian calendar with its time of day
C30_MilitaryTimeIsGregorian ==
  last.op = "get_current_military_time" =>
    /\ last.res.ok
    /\ last.res.v = GregorianTime(GregorianYear(last.arg.timestamp \div 86400, 1970),
                                  last.arg.timestamp)

====
